---- MODULE Spec2Model ----
(***************************************************************************)
(* Escrow wallet ledger, order life cycle, settlement sweeps and admin     *)
(* overrides of the Traderz backend (backend/app/services, backend/app/    *)
(* jobs).  Every handler is one action; the handlers that race on a wallet *)
(* are also given as read / commit steps of concurrent sessions (SpecConc).*)
(***************************************************************************)
EXTENDS Integers, Sequences, FiniteSets, TLC

(***************************************************************************)
(* Money.  Every money column is a SQLAlchemy Float and every computation  *)
(* is on Python floats: binary floating point, round to nearest, ties to   *)
(* even.  A value is modelled by the integer number of 2^-FracBits dollars *)
(* it denotes, and every arithmetic result is rounded to MantissaBits      *)
(* significant bits (53 in binary64; reduced here so that the values stay  *)
(* in TLC's integer range).  Whole-dollar amounts below 2^MantissaBits are *)
(* exact, exactly as small integers are exact in binary64.                 *)
(***************************************************************************)
MantissaBits == 8
FracBits == 12

RECURSIVE Pow2(_)
Pow2(n) == IF n = 0 THEN 1 ELSE 2 * Pow2(n - 1)

Unit == Pow2(FracBits)

\* n whole dollars
USD(n) == n * Unit

Abs(x) == IF x < 0 THEN -x ELSE x

\* the spacing of representable values around n: the least power of two q
\* (at least q0) with n < 2^MantissaBits * q
RECURSIVE Quantum(_, _)
Quantum(n, q0) == IF n < Pow2(MantissaBits) * q0 THEN q0 ELSE Quantum(n, 2 * q0)

\* num/den rounded to the nearest representable value, ties to even
RoundRat(num, den) ==
    LET s  == IF num < 0 THEN -1 ELSE 1
        n  == Abs(num)
        fl == n \div den
        r  == n % den
        Q  == Quantum(fl, 1)
        lo == (fl \div Q) * Q
        d  == fl - lo
        up == IF Q = 1
              THEN (2 * r > den) \/ (2 * r = den /\ lo % 2 = 1)
              ELSE \/ 2 * d > Q
                   \/ 2 * d = Q /\ r > 0
                   \/ 2 * d = Q /\ r = 0 /\ (lo \div Q) % 2 = 1
    IN  s * (IF up THEN lo + Q ELSE lo)

FAdd(a, b) == RoundRat(a + b, 1)
FSub(a, b) == RoundRat(a - b, 1)
FMul(a, b) == RoundRat(a * b, Unit)
FDiv(a, b) == RoundRat(a * Unit, b)
\* the float nearest to the decimal literal num/den
Lit(num, den) == RoundRat(num * Unit, den)

(***************************************************************************)
(* The world of the model                                                  *)
(***************************************************************************)
\* NULL, for a timestamp or number and for an id or name
None == -1
NoId == "none"
\* a stored string that int() does not parse
Invalid == -2

Users == {"b1", "s1"}
Listings == {"L1", "L2"}
ListingSeller(l) == "s1"
ListingGame(l) == "g1"
ListingPrice(l) == IF l = "L1" THEN USD(25) ELSE Unit \div 4
\* 100.50 dollars
DepositAmounts == {USD(201) \div 2}
\* the clock readings of the model, in hours
Instants == {0, 25, 265}
\* platform_fee_rules rows
FeeRules == {}
\* the rules an admin may have created for the game: one for a platform and a
\* seller level, one for the level on any platform, the game's default; the
\* tables they make up
FeeRuleRows ==
    {[game_id |-> "g1", platform_id |-> "pc", seller_level |-> "gold", fee_percent |-> USD(2)],
     [game_id |-> "g1", platform_id |-> NoId, seller_level |-> "gold", fee_percent |-> USD(3)],
     [game_id |-> "g1", platform_id |-> NoId, seller_level |-> NoId, fee_percent |-> USD(4)]}
RuleTables == SUBSET FeeRuleRows
\* the platform a listing is for, users.seller_level, listing prices: 0.21,
\* 0.25, 1, 25, 99.50 and 120 dollars
Platforms == {"pc"}
SellerLevels == {"bronze", "silver", "gold", "platinum", "diamond"}
FeePrices == {Lit(21, 100), Unit \div 4, USD(1), USD(25), USD(199) \div 2, USD(120)}
\* gift card codes, the amounts and the expiry dates they are created with
Codes == {"G1"}
GiftAmounts == {USD(25)}
GiftExpiries == {None}
NoCard == [status |-> "absent"]
\* the platform_config keys the settlement reads, and the updates an admin sends
ConfigKeys == {"disputeWindowHours", "sellerProtectionDays"}
ConfigUpdates == {<<"sellerProtectionDays", 1>>, <<"sellerProtectionDays", Invalid>>}
\* a dispute window of two days
WindowUpdates == {<<"disputeWindowHours", 48>>}
\* the admins, the amounts of their wallet overrides, whether the password they
\* re-enter verifies, the confirmation phrases they type, their Idempotency-Key
Admins == {"root"}
\* whoever may call an admin route: the super admin, an admin to whom no scope
\* was granted, a buyer; users.roles and users.admin_permissions of each
Callers == {"root", "mod", "b1"}
AdminRoles(a) == IF a = "root" THEN {"super_admin"} ELSE IF a = "mod" THEN {"admin"} ELSE {"buyer"}
admin_permissions(a) == {}
AdminAmounts == {USD(25)}
\* an override at the step-up threshold
LargeAmounts == {USD(1000)}
Passwords == {TRUE, FALSE}
Phrases == {NoId, "confirm debit", "CONFIRM DEBIT"}
IdemKeys == {NoId, "k1"}

NoOrder == 0
\* the resolutions an admin sends for a dispute
Resolutions == {"refund", "complete", "split"}
\* the result lists a sweep's SELECT can return: the orders in any order
ScanOrders ==
    {scan \in UNION {[1..n -> 1..Cardinality(Listings)] : n \in 0..Cardinality(Listings)} :
        \A i, j \in 1..Len(scan) : i # j => scan[i] # scan[j]}
\* what the mail service does with a notification: it sends it, returns False,
\* or raises
MailOutcomes == {"sent", "failed", "raised"}
\* the requests in flight at once, and a request with no transaction open
Procs == {"p1", "p2"}
NoTxn == [op |-> "none", pc |-> "none", user_id |-> NoId, listing_id |-> NoId,
          amount |-> 0, balance |-> [available_usd |-> 0, pending_usd |-> 0, frozen_usd |-> 0],
          number |-> None, code |-> NoId, outcome |-> "none", scan |-> <<>>,
          rows |-> <<>>, marks |-> <<>>, mail |-> <<>>]

MaxLedger == 4

VARIABLES
    config,     \* platform_config value by key, None while the row is absent
    ledger,     \* wallet_ledger rows in created_at order
    orders,     \* orders rows, by order id 1..Len(orders)
    listings,   \* listing status by listing
    counter,    \* order_counter.current_value, None while the row is absent
    sellers,    \* users.total_sales_volume_usd and users.seller_level
    giftcards,  \* giftcards rows by code, NoCard while the code does not exist
    actions,    \* admin_actions rows (the audit log) in insertion order
    now,        \* the wall clock, in hours
    result,     \* what the last handler returned
    txn         \* the open transaction of each concurrent request

vars == <<config, ledger, orders, listings, counter, sellers, giftcards, actions, now, result,
         txn>>

\* everything the handlers persist
db == <<config, ledger, orders, listings, counter, sellers, giftcards, actions>>

(***************************************************************************)
(* Ledger store and balance accessor (wallet_service.py)                   *)
(***************************************************************************)
ZeroBalance == [available_usd |-> 0, pending_usd |-> 0, frozen_usd |-> 0]

\* indices of the rows of user u
RowsOf(led, u) == {i \in 1..Len(led) : led[i].user_id = u}

Max(S) == CHOOSE x \in S : \A y \in S : y <= x

get_user_balance(led, u) ==
    IF RowsOf(led, u) = {} THEN ZeroBalance
    ELSE LET last_entry == led[Max(RowsOf(led, u))]
         IN  [available_usd |-> last_entry.balance_available_after,
              pending_usd   |-> last_entry.balance_pending_after,
              frozen_usd    |-> last_entry.balance_frozen_after]

\* the row written by _create_ledger_entry from the balance it read
NewEntry(balance, u, type, amount, ad, pd, fd, oid) ==
    [user_id |-> u, entry_type |-> type, amount_usd |-> amount,
     balance_available_after |-> FAdd(balance.available_usd, ad),
     balance_pending_after   |-> FAdd(balance.pending_usd, pd),
     balance_frozen_after    |-> FAdd(balance.frozen_usd, fd),
     order_id |-> oid]

\* _create_ledger_entry without its three balance checks
EntryError_Unchecked(e) == "ok"

\* the error _create_ledger_entry raises for that row, "ok" when it is written
EntryError(e) ==
    IF e.balance_available_after < 0 THEN "INSUFFICIENT_BALANCE"
    ELSE IF e.balance_pending_after < 0 THEN "WALLET_ERROR"
    ELSE IF e.balance_frozen_after < 0 THEN "WALLET_ERROR"
    ELSE "ok"

_create_ledger_entry(led, u, type, amount, ad, pd, fd, oid) ==
    NewEntry(get_user_balance(led, u), u, type, amount, ad, pd, fd, oid)

hold_escrow(led, u, amount, oid) ==
    _create_ledger_entry(led, u, "escrow_hold", -amount, -amount, 0, 0, oid)

release_escrow_to_pending(led, u, amount, oid) ==
    _create_ledger_entry(led, u, "escrow_release_pending", amount, 0, amount, 0, oid)

release_pending_to_available(led, u, amount, oid) ==
    _create_ledger_entry(led, u, "escrow_release_available", amount, amount, -amount, 0, oid)

refund_escrow(led, u, amount, oid) ==
    _create_ledger_entry(led, u, "refund", amount, amount, 0, 0, oid)

Res(op, code) == [op |-> op, code |-> code]
\* no request is being served
Idle == Res("idle", "ok")

Init ==
    /\ config = [k \in ConfigKeys |-> None]
    /\ ledger = <<>>
    /\ orders = <<>>
    /\ listings = [l \in Listings |-> "approved"]
    /\ counter = None
    /\ sellers = [u \in Users |-> [total_sales_volume_usd |-> 0, seller_level |-> "bronze"]]
    /\ giftcards = [c \in Codes |-> NoCard]
    /\ actions = <<>>
    /\ now = 0
    /\ result = Idle
    /\ txn = [p \in Procs |-> NoTxn]

deposit(u, amt) ==
    LET e == _create_ledger_entry(ledger, u, "deposit", amt, amt, 0, 0, NoOrder)
    IN  /\ IF EntryError(e) = "ok"
           THEN ledger' = Append(ledger, e)
           ELSE UNCHANGED ledger
        /\ result' = Res("deposit", EntryError(e))
        /\ UNCHANGED <<orders, listings, counter, sellers, giftcards, actions, config, now>>

request_withdrawal(u, amt) ==
    LET e == _create_ledger_entry(ledger, u, "withdrawal_request", -amt, -amt, 0, 0, NoOrder)
    IN  /\ IF EntryError(e) = "ok"
           THEN ledger' = Append(ledger, e)
           ELSE UNCHANGED ledger
        /\ result' = Res("request_withdrawal", EntryError(e))
        /\ UNCHANGED <<orders, listings, counter, sellers, giftcards, actions, config, now>>

\* POST /giftcards
create_giftcard(c, amt, expires_at) ==
    /\ IF giftcards[c] # NoCard
       THEN /\ result' = Res("create_giftcard", "CONFLICT")
            /\ UNCHANGED giftcards
       ELSE /\ giftcards' = [giftcards EXCEPT ![c] =
                   [status |-> "active", amount_usd |-> amt, is_active |-> TRUE,
                    is_redeemed |-> FALSE, redeemed_by |-> NoId,
                    expires_at |-> expires_at]]
            /\ result' = Res("create_giftcard", "ok")
    /\ UNCHANGED <<ledger, orders, listings, counter, sellers, actions, config, now>>

redeem_giftcard(u, c) ==
    LET giftcard == giftcards[c]
        e == _create_ledger_entry(ledger, u, "giftcard_redeem", giftcard.amount_usd,
                                  giftcard.amount_usd, 0, 0, NoOrder)
    IN  IF giftcard = NoCard \/ ~giftcard.is_active \/ giftcard.is_redeemed
        THEN /\ result' = Res("redeem_giftcard", "NOT_FOUND")
             /\ UNCHANGED <<db, now>>
        ELSE IF giftcard.expires_at # None /\ giftcard.expires_at < now
        THEN /\ result' = Res("redeem_giftcard", "VALIDATION_ERROR")
             /\ UNCHANGED <<db, now>>
        ELSE /\ IF EntryError(e) # "ok"
                THEN /\ result' = Res("redeem_giftcard", EntryError(e))
                     /\ UNCHANGED <<db, now>>
                ELSE /\ giftcards' = [giftcards EXCEPT ![c].is_redeemed = TRUE,
                                                       ![c].redeemed_by = u]
                     /\ ledger' = Append(ledger, e)
                     /\ result' = Res("redeem_giftcard", "ok")
                     /\ UNCHANGED <<orders, listings, counter, sellers, actions, config, now>>

(***************************************************************************)
(* Fees and seller statistics (fee_service.py, user_service.py)            *)
(***************************************************************************)
DefaultFeePercent == USD(5)

\* the fee_percent of the platform_fee_rules rows with these three columns
RuleFee(rules, game, platform, level) ==
    {r.fee_percent : r \in {x \in rules : /\ x.game_id = game
                                           /\ x.platform_id = platform
                                           /\ x.seller_level = level}}

get_platform_fee(rules, game_id, platform_id, seller_level) ==
    IF game_id # NoId /\ platform_id # NoId
          /\ RuleFee(rules, game_id, platform_id, seller_level) # {}
    THEN CHOOSE f \in RuleFee(rules, game_id, platform_id, seller_level) : TRUE
    ELSE IF game_id # NoId /\ RuleFee(rules, game_id, NoId, seller_level) # {}
    THEN CHOOSE f \in RuleFee(rules, game_id, NoId, seller_level) : TRUE
    ELSE IF game_id # NoId /\ RuleFee(rules, game_id, NoId, NoId) # {}
    THEN CHOOSE f \in RuleFee(rules, game_id, NoId, NoId) : TRUE
    ELSE DefaultFeePercent

get_seller_fee_discount(seller_level) ==
    CASE seller_level = "bronze"   -> 0
      [] seller_level = "silver"   -> Lit(10, 100)
      [] seller_level = "gold"     -> Lit(20, 100)
      [] seller_level = "platinum" -> Lit(35, 100)
      [] seller_level = "diamond"  -> Lit(50, 100)
      [] OTHER -> 0

LevelOf(volume) ==
    IF volume >= USD(1500) THEN "diamond"
    ELSE IF volume >= USD(750) THEN "platinum"
    ELSE IF volume >= USD(350) THEN "gold"
    ELSE IF volume >= USD(100) THEN "silver"
    ELSE "bronze"

\* create_order, "Calculate fees": the fee columns of the order of a listing
\* of this game and price whose seller has this level; the rule is looked up
\* with no platform
OrderFees(rules, game_id, price_usd, seller_level) ==
    LET base_fee_percent == get_platform_fee(rules, game_id, NoId, seller_level)
        seller_discount == get_seller_fee_discount(seller_level)
        effective_fee_percent == FMul(base_fee_percent, FSub(USD(1), seller_discount))
        platform_fee == FMul(price_usd, FDiv(effective_fee_percent, USD(100)))
        seller_earnings == FSub(price_usd, platform_fee)
    IN  [base_fee_percent |-> base_fee_percent,
         seller_discount_percent |-> FMul(seller_discount, USD(100)),
         effective_fee_percent |-> effective_fee_percent,
         platform_fee_usd |-> platform_fee,
         seller_earnings_usd |-> seller_earnings]

\* the fees create_order computes for a listing of game g1 on this platform
\* at this price, under this rule table, for a seller of this level
calculate_fees(rules, platform, price_usd, seller_level) ==
    LET fees == OrderFees(rules, "g1", price_usd, seller_level)
    IN  /\ result' = [op |-> "calculate_fees", code |-> "ok", rules |-> rules,
                      platform |-> platform, seller_level |-> seller_level,
                      amount_usd |-> price_usd,
                      base_fee_percent |-> fees.base_fee_percent,
                      effective_fee_percent |-> fees.effective_fee_percent,
                      platform_fee_usd |-> fees.platform_fee_usd,
                      seller_earnings_usd |-> fees.seller_earnings_usd]
        /\ UNCHANGED <<db, now>>

update_seller_stats(sel, seller_id, order_amount_usd) ==
    LET volume == FAdd(sel[seller_id].total_sales_volume_usd, order_amount_usd)
    IN  [sel EXCEPT ![seller_id] =
            [total_sales_volume_usd |-> volume, seller_level |-> LevelOf(volume)]]

(***************************************************************************)
(* Order state machine (order_service.py)                                  *)
(***************************************************************************)
SellerProtectionHours == 240
DisputeHours == 24
FirstOrderNumber == 1000

OrderIds == 1..Len(orders)

Fail(op, code) ==
    /\ result' = Res(op, code)
    /\ UNCHANGED <<db, now>>

\* the order row of a create_order that commits before it has taken the payment
NewOrder_Created(b, l, number) ==
    LET price == ListingPrice(l)
        fees == OrderFees(FeeRules, ListingGame(l), price,
                          sellers[ListingSeller(l)].seller_level)
    IN  [order_number |-> number, listing_id |-> l, buyer_id |-> b,
         seller_id |-> ListingSeller(l), amount_usd |-> price,
         platform_fee_usd |-> fees.platform_fee_usd,
         seller_earnings_usd |-> fees.seller_earnings_usd,
         status |-> "created", delivered_at |-> None, completed_at |-> None,
         completed_by |-> "none", seller_pending_release_at |-> None,
         seller_earnings_released |-> None]

\* the order row create_order commits
NewOrder(b, l, number) ==
    LET price == ListingPrice(l)
        fees == OrderFees(FeeRules, ListingGame(l), price,
                          sellers[ListingSeller(l)].seller_level)
    IN  [order_number |-> number, listing_id |-> l, buyer_id |-> b,
         seller_id |-> ListingSeller(l), amount_usd |-> price,
         platform_fee_usd |-> fees.platform_fee_usd,
         seller_earnings_usd |-> fees.seller_earnings_usd,
         status |-> "paid", delivered_at |-> None, completed_at |-> None,
         completed_by |-> "none", seller_pending_release_at |-> None,
         seller_earnings_released |-> None]

\* create_order taking and keeping the order number before it checks the balance
create_order_NumberFirst(b, l) ==
    LET price == ListingPrice(l)
        number == IF counter = None THEN FirstOrderNumber ELSE counter
        oid == Len(orders) + 1
        e == hold_escrow(ledger, b, price, oid)
    IN  /\ IF listings[l] # "approved" THEN Fail("create_order", "VALIDATION_ERROR")
           ELSE IF ListingSeller(l) = b THEN Fail("create_order", "VALIDATION_ERROR")
           ELSE IF get_user_balance(ledger, b).available_usd < price
                THEN /\ counter' = number + 1
                     /\ result' = Res("create_order", "INSUFFICIENT_BALANCE")
                     /\ UNCHANGED <<ledger, orders, listings, sellers, giftcards, actions,
                                    config, now>>
           ELSE IF EntryError(e) # "ok" THEN Fail("create_order", EntryError(e))
           ELSE /\ orders' = Append(orders, NewOrder(b, l, number))
                /\ counter' = number + 1
                /\ ledger' = Append(ledger, e)
                /\ listings' = [listings EXCEPT ![l] = "sold"]
                /\ result' = Res("create_order", "ok")
                /\ UNCHANGED <<sellers, giftcards, actions, config, now>>

create_order(b, l) ==
    LET price == ListingPrice(l)
        number == IF counter = None THEN FirstOrderNumber ELSE counter
        oid == Len(orders) + 1
        e == hold_escrow(ledger, b, price, oid)
    IN  /\ IF listings[l] # "approved" THEN Fail("create_order", "VALIDATION_ERROR")
           ELSE IF ListingSeller(l) = b THEN Fail("create_order", "VALIDATION_ERROR")
           ELSE IF get_user_balance(ledger, b).available_usd < price
                THEN Fail("create_order", "INSUFFICIENT_BALANCE")
           ELSE IF EntryError(e) # "ok" THEN Fail("create_order", EntryError(e))
           ELSE /\ orders' = Append(orders, NewOrder(b, l, number))
                /\ counter' = number + 1
                /\ ledger' = Append(ledger, e)
                /\ listings' = [listings EXCEPT ![l] = "sold"]
                /\ result' = Res("create_order", "ok")
                /\ UNCHANGED <<sellers, giftcards, actions, config, now>>

deliver_order(oid, seller_id) ==
    IF orders[oid].seller_id # seller_id THEN Fail("deliver_order", "NOT_FOUND")
    ELSE IF orders[oid].status # "paid"
         THEN Fail("deliver_order", "INVALID_STATE_TRANSITION")
    ELSE /\ orders' = [orders EXCEPT ![oid].status = "delivered",
                                     ![oid].delivered_at = now]
         /\ result' = Res("deliver_order", "ok")
         /\ UNCHANGED <<ledger, listings, counter, sellers, giftcards, actions, config, now>>

\* the order row after a completion at the current time
Completed(o, by, protection_hours) ==
    [o EXCEPT !.status = "completed", !.completed_at = now, !.completed_by = by,
              !.seller_pending_release_at = now + protection_hours]

complete_order(oid, user_id) ==
    LET o == orders[oid]
        e == release_escrow_to_pending(ledger, o.seller_id, o.seller_earnings_usd, oid)
    IN  IF o.buyer_id # user_id THEN Fail("complete_order", "AUTHORIZATION_ERROR")
        ELSE IF o.status # "delivered"
             THEN Fail("complete_order", "INVALID_STATE_TRANSITION")
        ELSE /\ IF EntryError(e) # "ok" THEN Fail("complete_order", EntryError(e))
                ELSE /\ ledger' = Append(ledger, e)
                     /\ orders' = [orders EXCEPT ![oid] = Completed(o, "buyer", SellerProtectionHours)]
                     /\ sellers' = update_seller_stats(sellers, o.seller_id, o.amount_usd)
                     /\ result' = Res("complete_order", "ok")
                     /\ UNCHANGED <<listings, counter, giftcards, actions, config, now>>

\* dispute_order without its status check
dispute_order_AnyStatus(oid, buyer_id) ==
    LET o == orders[oid]
    IN  IF o.buyer_id # buyer_id THEN Fail("dispute_order", "NOT_FOUND")
        ELSE IF o.delivered_at # None /\ now > o.delivered_at + DisputeHours
             THEN Fail("dispute_order", "VALIDATION_ERROR")
        ELSE /\ orders' = [orders EXCEPT ![oid].status = "disputed"]
             /\ result' = Res("dispute_order", "ok")
             /\ UNCHANGED <<ledger, listings, counter, sellers, giftcards, actions, config, now>>

dispute_order(oid, buyer_id) ==
    LET o == orders[oid]
    IN  IF o.buyer_id # buyer_id THEN Fail("dispute_order", "NOT_FOUND")
        ELSE IF o.status # "delivered"
             THEN Fail("dispute_order", "INVALID_STATE_TRANSITION")
        ELSE IF o.delivered_at # None /\ now > o.delivered_at + DisputeHours
             THEN Fail("dispute_order", "VALIDATION_ERROR")
        ELSE /\ orders' = [orders EXCEPT ![oid].status = "disputed"]
             /\ result' = Res("dispute_order", "ok")
             /\ UNCHANGED <<ledger, listings, counter, sellers, giftcards, actions, config, now>>

resolve_dispute(oid, resolution) ==
    LET o == orders[oid]
        refund == refund_escrow(ledger, o.buyer_id, o.amount_usd, oid)
        release == release_escrow_to_pending(ledger, o.seller_id, o.seller_earnings_usd, oid)
    IN  IF o.status # "disputed"
        THEN Fail("resolve_dispute", "INVALID_STATE_TRANSITION")
        ELSE IF resolution \notin {"refund", "complete"}
        THEN Fail("resolve_dispute", "VALIDATION_ERROR")
        ELSE /\ IF resolution = "refund"
                THEN IF EntryError(refund) # "ok"
                     THEN Fail("resolve_dispute", EntryError(refund))
                     ELSE /\ ledger' = Append(ledger, refund)
                          /\ orders' = [orders EXCEPT ![oid].status = "refunded"]
                          /\ result' = Res("resolve_dispute", "ok")
                          /\ UNCHANGED <<listings, counter, sellers, giftcards, actions, config, now>>
                ELSE IF EntryError(release) # "ok"
                     THEN Fail("resolve_dispute", EntryError(release))
                     ELSE /\ ledger' = Append(ledger, release)
                          /\ orders' = [orders EXCEPT ![oid] = Completed(o, "admin", SellerProtectionHours)]
                          /\ sellers' = update_seller_stats(sellers, o.seller_id, o.amount_usd)
                          /\ result' = Res("resolve_dispute", "ok")
                          /\ UNCHANGED <<listings, counter, giftcards, actions, config, now>>

\* POST /orders/admin/{order_id}/resolve (api/routes/orders.py) behind
\* Depends(require_admin) (api/deps.py)
require_admin(user) == "admin" \in AdminRoles(user) \/ "super_admin" \in AdminRoles(user)

resolve_dispute_route(user, oid, resolution) ==
    IF ~require_admin(user) THEN Fail("resolve_dispute", "AUTHORIZATION_ERROR")
    ELSE resolve_dispute(oid, resolution)

cancel_order(oid, user_id) ==
    LET o == orders[oid]
    IN  IF o.buyer_id # user_id /\ o.seller_id # user_id
        THEN Fail("cancel_order", "AUTHORIZATION_ERROR")
        ELSE IF o.status # "created"
             THEN Fail("cancel_order", "INVALID_STATE_TRANSITION")
        ELSE /\ orders' = [orders EXCEPT ![oid].status = "cancelled"]
             /\ result' = Res("cancel_order", "ok")
             /\ UNCHANGED <<ledger, listings, counter, sellers, giftcards, actions, config, now>>

(***************************************************************************)
(* Settlement scheduler (jobs/scheduler.py).  A sweep is one action: the   *)
(* selected orders are processed one after the other, a failing item is    *)
(* logged and skipped.                                                     *)
(***************************************************************************)
get_config_value(cfg, key, default) == IF cfg[key] = None THEN default ELSE cfg[key]

\* PUT /config (api/routes/config_routes.py), a super admin's request
update_config(key, value) ==
    /\ config' = [config EXCEPT ![key] = value]
    /\ result' = Res("update_config", "ok")
    /\ UNCHANGED <<ledger, orders, listings, counter, sellers, giftcards, actions, now>>

\* int(value) of a stored configuration string, Invalid when int() raises
int(value) == value

\* the orders a query returned, in one of the orders the database may return
\* them in (the sweeps' SELECTs have no ORDER BY)
Scans(S) ==
    {scan \in UNION {[1..n -> S] : n \in {Cardinality(S)}} :
        \A i, j \in 1..Len(scan) : i # j => scan[i] # scan[j]}

\* the DELIVERED orders past the dispute window
SelectDelivered_AnyStatus(cutoff_time) ==
    {oid \in OrderIds : /\ orders[oid].delivered_at # None
                        /\ orders[oid].delivered_at < cutoff_time}

SelectDelivered(cutoff_time) ==
    {oid \in OrderIds : /\ orders[oid].status = "delivered"
                        /\ orders[oid].delivered_at < cutoff_time}

\* a loop that the first item to raise would end
RECURSIVE AutoCompleteAll_StopAtFailure(_, _)
AutoCompleteAll_StopAtFailure(st, scan) ==
    IF scan = <<>> THEN st
    ELSE LET oid == Head(scan)
             o == st.orders[oid]
             e == release_escrow_to_pending(st.ledger, o.seller_id,
                                            o.seller_earnings_usd, oid)
             protection_days == int(get_config_value(st.config, "sellerProtectionDays", 10))
         IN  IF EntryError(e) # "ok" THEN st
             ELSE IF protection_days = Invalid
             THEN [st EXCEPT !.ledger = Append(st.ledger, e),
                             !.orders[oid].status = "completed",
                             !.orders[oid].completed_at = now,
                             !.orders[oid].completed_by = "auto"]
             ELSE AutoCompleteAll_StopAtFailure(
                     [st EXCEPT !.ledger = Append(st.ledger, e),
                                !.orders[oid] = Completed(o, "auto", 24 * protection_days),
                                !.sellers = update_seller_stats(st.sellers, o.seller_id,
                                                                o.amount_usd),
                                !.completed_count = @ + 1],
                     Tail(scan))

\* the loop of auto_complete_orders_job over the orders it scanned; an item
\* that raises is logged and what it had changed stays in the session
RECURSIVE AutoCompleteAll(_, _)
AutoCompleteAll(st, scan) ==
    IF scan = <<>> THEN st
    ELSE LET oid == Head(scan)
             o == st.orders[oid]
             e == release_escrow_to_pending(st.ledger, o.seller_id,
                                            o.seller_earnings_usd, oid)
             protection_days == int(get_config_value(st.config, "sellerProtectionDays", 10))
         IN  IF EntryError(e) # "ok" THEN AutoCompleteAll(st, Tail(scan))
             ELSE IF protection_days = Invalid
             THEN AutoCompleteAll(
                     [st EXCEPT !.ledger = Append(st.ledger, e),
                                !.orders[oid].status = "completed",
                                !.orders[oid].completed_at = now,
                                !.orders[oid].completed_by = "auto"],
                     Tail(scan))
             ELSE AutoCompleteAll(
                     [st EXCEPT !.ledger = Append(st.ledger, e),
                                !.orders[oid] = Completed(o, "auto", 24 * protection_days),
                                !.sellers = update_seller_stats(st.sellers, o.seller_id,
                                                                o.amount_usd),
                                !.completed_count = @ + 1],
                     Tail(scan))

auto_complete_orders_job(scan) ==
    LET dispute_hours == int(get_config_value(config, "disputeWindowHours", 24))
        cutoff_time == now - dispute_hours
        st == AutoCompleteAll([config |-> config, ledger |-> ledger, orders |-> orders,
                               sellers |-> sellers, completed_count |-> 0],
                              scan)
    IN  IF dispute_hours = Invalid
        THEN /\ scan = <<>>
             /\ Fail("auto_complete_orders_job", "failed")
        ELSE /\ scan \in Scans(SelectDelivered(cutoff_time))
             /\ ledger' = st.ledger
             /\ orders' = st.orders
             /\ sellers' = st.sellers
             /\ result' = [op |-> "auto_complete_orders_job", code |-> "ok",
                           scanned |-> Len(scan), completed |-> st.completed_count]
             /\ UNCHANGED <<listings, counter, giftcards, actions, config, now>>

\* the PENDING earnings due for release
SelectReleasable ==
    {oid \in OrderIds : /\ orders[oid].status = "completed"
                        /\ orders[oid].seller_pending_release_at # None
                        /\ orders[oid].seller_pending_release_at <= now
                        /\ orders[oid].seller_earnings_released = None}

\* the loop of release_pending_earnings_job over the orders it scanned
RECURSIVE ReleaseAll(_, _)
ReleaseAll(st, scan) ==
    IF scan = <<>> THEN st
    ELSE LET oid == Head(scan)
             o == st.orders[oid]
             e == release_pending_to_available(st.ledger, o.seller_id,
                                               o.seller_earnings_usd, oid)
         IN  IF EntryError(e) # "ok" THEN ReleaseAll(st, Tail(scan))
             ELSE ReleaseAll(
                     [st EXCEPT !.ledger = Append(st.ledger, e),
                                !.orders[oid].seller_earnings_released = now,
                                !.released_count = @ + 1],
                     Tail(scan))

release_pending_earnings_job(scan) ==
    LET st == ReleaseAll([ledger |-> ledger, orders |-> orders, released_count |-> 0], scan)
    IN  /\ scan \in Scans(SelectReleasable)
        /\ ledger' = st.ledger
        /\ orders' = st.orders
        /\ result' = [op |-> "release_pending_earnings_job", code |-> "ok",
                      scanned |-> Len(scan), completed |-> st.released_count]
        /\ UNCHANGED <<listings, counter, sellers, giftcards, actions, config, now>>

(***************************************************************************)
(* Admin override and audit (superadmin_service.py)                        *)
(***************************************************************************)
LARGE_AMOUNT_THRESHOLD == USD(1000)

\* str.upper() on the phrases an admin types
upper(phrase) ==
    CASE phrase = "confirm debit"    -> "CONFIRM DEBIT"
      [] phrase = "confirm freeze"   -> "CONFIRM FREEZE"
      [] phrase = "confirm refund"   -> "CONFIRM REFUND"
      [] phrase = "confirm complete" -> "CONFIRM COMPLETE"
      [] OTHER -> phrase

\* AuditLogger.log: the admin_actions row
Audit(admin, action_type, target_id, key) ==
    [actor_id |-> admin, action_type |-> action_type, target_id |-> target_id,
     idempotency_key |-> key]

KeyUsed(key) == key # NoId /\ \E i \in 1..Len(actions) : actions[i].idempotency_key = key

\* the ledger row a wallet override writes, from the balance it read
AdminEntry(u, type, amount, new_available, new_frozen) ==
    [user_id |-> u, entry_type |-> type, amount_usd |-> amount,
     balance_available_after |-> new_available,
     balance_pending_after   |-> get_user_balance(ledger, u).pending_usd,
     balance_frozen_after    |-> new_frozen,
     order_id |-> NoOrder]

\* the flush and commit of a wallet override: the ledger row and the audit
\* row, or neither when the unique index on idempotency_key rejects the insert
CommitOverride(op, admin, action_type, u, key, e) ==
    /\ IF KeyUsed(key) THEN Fail(op, "INTERNAL_ERROR")
       ELSE /\ ledger' = Append(ledger, e)
            /\ actions' = Append(actions, Audit(admin, action_type, u, key))
            /\ result' = Res(op, "ok")
            /\ UNCHANGED <<orders, listings, counter, sellers, giftcards, config, now>>

credit_wallet(admin, u, amount_usd, key) ==
    LET bal == get_user_balance(ledger, u)
    IN  IF "super_admin" \notin AdminRoles(admin)
        THEN Fail("credit_wallet", "AUTHORIZATION_ERROR")
        ELSE IF KeyUsed(key) THEN Fail("credit_wallet", "DUPLICATE_ENTRY")
        ELSE CommitOverride("credit_wallet", admin, "wallet_credit", u, key,
                AdminEntry(u, "admin_credit", amount_usd,
                           FAdd(bal.available_usd, amount_usd), bal.frozen_usd))

debit_wallet(admin, u, amount_usd, pw, phrase, key) ==
    LET bal == get_user_balance(ledger, u)
    IN  IF "super_admin" \notin AdminRoles(admin)
        THEN Fail("debit_wallet", "AUTHORIZATION_ERROR")
        ELSE IF ~pw THEN Fail("debit_wallet", "AUTHENTICATION_ERROR")
        ELSE IF amount_usd >= LARGE_AMOUNT_THRESHOLD /\ upper(phrase) # "CONFIRM DEBIT"
        THEN Fail("debit_wallet", "VALIDATION_ERROR")
        ELSE IF bal.available_usd < amount_usd
        THEN Fail("debit_wallet", "INSUFFICIENT_BALANCE")
        ELSE CommitOverride("debit_wallet", admin, "wallet_debit", u, key,
                AdminEntry(u, "admin_debit", -amount_usd,
                           FSub(bal.available_usd, amount_usd), bal.frozen_usd))

freeze_funds(admin, u, amount_usd, pw, phrase, key) ==
    LET bal == get_user_balance(ledger, u)
    IN  IF "super_admin" \notin AdminRoles(admin)
        THEN Fail("freeze_funds", "AUTHORIZATION_ERROR")
        ELSE IF ~pw THEN Fail("freeze_funds", "AUTHENTICATION_ERROR")
        ELSE IF amount_usd >= LARGE_AMOUNT_THRESHOLD /\ upper(phrase) # "CONFIRM FREEZE"
        THEN Fail("freeze_funds", "VALIDATION_ERROR")
        ELSE IF bal.available_usd < amount_usd
        THEN Fail("freeze_funds", "INSUFFICIENT_BALANCE")
        ELSE CommitOverride("freeze_funds", admin, "wallet_freeze", u, key,
                AdminEntry(u, "admin_freeze_hold", -amount_usd,
                           FSub(bal.available_usd, amount_usd),
                           FAdd(bal.frozen_usd, amount_usd)))

unfreeze_funds(admin, u, amount_usd, key) ==
    LET bal == get_user_balance(ledger, u)
    IN  IF "super_admin" \notin AdminRoles(admin)
        THEN Fail("unfreeze_funds", "AUTHORIZATION_ERROR")
        ELSE IF bal.frozen_usd < amount_usd
        THEN Fail("unfreeze_funds", "INSUFFICIENT_BALANCE")
        ELSE CommitOverride("unfreeze_funds", admin, "wallet_unfreeze", u, key,
                AdminEntry(u, "admin_freeze_release", amount_usd,
                           FAdd(bal.available_usd, amount_usd),
                           FSub(bal.frozen_usd, amount_usd)))

\* POST /wallet/admin/credit, /debit, /freeze, /unfreeze (api/routes/wallet.py):
\* the ledger entry of wallet_service.admin_*, committed on its own
WalletAdmin(op, admin, e) ==
    IF "super_admin" \notin AdminRoles(admin) THEN Fail(op, "AUTHORIZATION_ERROR")
    ELSE /\ IF EntryError(e) # "ok" THEN Fail(op, EntryError(e))
            ELSE /\ ledger' = Append(ledger, e)
                 /\ result' = Res(op, "ok")
                 /\ UNCHANGED <<orders, listings, counter, sellers, giftcards, actions,
                                config, now>>

admin_credit(admin, u, amount) ==
    WalletAdmin("admin_credit", admin,
        _create_ledger_entry(ledger, u, "admin_credit", amount, amount, 0, 0, NoOrder))

admin_debit(admin, u, amount) ==
    WalletAdmin("admin_debit", admin,
        _create_ledger_entry(ledger, u, "admin_debit", -amount, -amount, 0, 0, NoOrder))

admin_freeze(admin, u, amount) ==
    WalletAdmin("admin_freeze", admin,
        _create_ledger_entry(ledger, u, "admin_freeze_hold", -amount, -amount, 0, amount,
                             NoOrder))

admin_unfreeze(admin, u, amount) ==
    WalletAdmin("admin_unfreeze", admin,
        _create_ledger_entry(ledger, u, "admin_freeze_release", amount, amount, 0, -amount,
                             NoOrder))

\* SuperAdminService.deactivate_gift_card
deactivate_gift_card(admin, c) ==
    LET card == giftcards[c]
    IN  IF "super_admin" \notin AdminRoles(admin)
        THEN Fail("deactivate_gift_card", "AUTHORIZATION_ERROR")
        ELSE IF card = NoCard THEN Fail("deactivate_gift_card", "NOT_FOUND")
        ELSE IF card.status = "redeemed"
        THEN Fail("deactivate_gift_card", "INVALID_STATE")
        ELSE /\ giftcards' = [giftcards EXCEPT ![c].status = "deactivated",
                                               ![c].is_active = FALSE]
             /\ actions' = Append(actions, Audit(admin, "wallet_freeze", c, NoId))
             /\ result' = Res("deactivate_gift_card", "ok")
             /\ UNCHANGED <<ledger, orders, listings, counter, sellers, config, now>>

\* DELETE /giftcards/{giftcard_id} (api/routes/giftcards.py)
deactivate_giftcard(admin, c) ==
    IF "super_admin" \notin AdminRoles(admin)
    THEN Fail("deactivate_giftcard", "AUTHORIZATION_ERROR")
    ELSE IF giftcards[c] = NoCard THEN Fail("deactivate_giftcard", "NOT_FOUND")
    ELSE /\ giftcards' = [giftcards EXCEPT ![c].is_active = FALSE]
         /\ result' = Res("deactivate_giftcard", "ok")
         /\ UNCHANGED <<ledger, orders, listings, counter, sellers, actions, config, now>>

force_refund_order(admin, oid, pw, phrase) ==
    LET o == orders[oid]
        bal == get_user_balance(ledger, o.buyer_id)
        e == [user_id |-> o.buyer_id, entry_type |-> "refund", amount_usd |-> o.amount_usd,
              balance_available_after |-> FAdd(bal.available_usd, o.amount_usd),
              balance_pending_after   |-> bal.pending_usd,
              balance_frozen_after    |-> bal.frozen_usd,
              order_id |-> oid]
    IN  IF "super_admin" \notin AdminRoles(admin)
        THEN Fail("force_refund_order", "AUTHORIZATION_ERROR")
        ELSE IF ~pw THEN Fail("force_refund_order", "AUTHENTICATION_ERROR")
        ELSE IF o.status \in {"refunded", "cancelled"}
        THEN Fail("force_refund_order", "INVALID_STATE")
        ELSE IF o.amount_usd >= LARGE_AMOUNT_THRESHOLD /\ upper(phrase) # "CONFIRM REFUND"
        THEN Fail("force_refund_order", "VALIDATION_ERROR")
        ELSE /\ ledger' = Append(ledger, e)
             /\ orders' = [orders EXCEPT ![oid].status = "refunded"]
             /\ actions' = Append(actions, Audit(admin, "force_refund", oid, NoId))
             /\ result' = Res("force_refund_order", "ok")
             /\ UNCHANGED <<listings, counter, sellers, giftcards, config, now>>

force_complete_order(admin, oid, pw, phrase) ==
    LET o == orders[oid]
        bal == get_user_balance(ledger, o.seller_id)
        e == [user_id |-> o.seller_id, entry_type |-> "escrow_release_pending",
              amount_usd |-> o.seller_earnings_usd,
              balance_available_after |-> bal.available_usd,
              balance_pending_after   |-> FAdd(bal.pending_usd, o.seller_earnings_usd),
              balance_frozen_after    |-> bal.frozen_usd,
              order_id |-> oid]
    IN  IF "super_admin" \notin AdminRoles(admin)
        THEN Fail("force_complete_order", "AUTHORIZATION_ERROR")
        ELSE IF ~pw THEN Fail("force_complete_order", "AUTHENTICATION_ERROR")
        ELSE IF o.status \in {"completed", "refunded", "cancelled"}
        THEN Fail("force_complete_order", "INVALID_STATE")
        ELSE IF o.amount_usd >= LARGE_AMOUNT_THRESHOLD /\ upper(phrase) # "CONFIRM COMPLETE"
        THEN Fail("force_complete_order", "VALIDATION_ERROR")
        ELSE /\ ledger' = Append(ledger, e)
             /\ orders' = [orders EXCEPT ![oid] = Completed(o, "admin", SellerProtectionHours)]
             /\ actions' = Append(actions, Audit(admin, "force_complete", oid, NoId))
             /\ result' = Res("force_complete_order", "ok")
             /\ UNCHANGED <<listings, counter, sellers, giftcards, config, now>>

Tick(t) ==
    /\ t > now
    /\ now' = t
    /\ UNCHANGED <<db, result>>

\* the response is returned to the caller (routes, core/errors.py)
Return ==
    /\ result # Idle
    /\ result' = Idle
    /\ UNCHANGED <<db, now, txn>>

\* a request is served when no other is: one request at a time; the ledger of
\* a run is bounded
Serve(handler) == result = Idle /\ Len(ledger) < MaxLedger /\ handler /\ UNCHANGED txn

WalletOps ==
    \/ \E u \in Users, amt \in DepositAmounts : Serve(deposit(u, amt))
    \/ \E u \in Users, amt \in DepositAmounts : Serve(request_withdrawal(u, amt))

OrderOps ==
    \/ \E b \in Users, l \in Listings : Serve(create_order(b, l))
    \/ \E oid \in OrderIds, u \in Users : Serve(deliver_order(oid, u))
    \/ \E oid \in OrderIds, u \in Users : Serve(complete_order(oid, u))
    \/ \E oid \in OrderIds, u \in Users : Serve(dispute_order(oid, u))
    \/ \E oid \in OrderIds, r \in Resolutions : Serve(resolve_dispute(oid, r))
    \/ \E oid \in OrderIds, u \in Users : Serve(cancel_order(oid, u))

ConfigOps ==
    \E kv \in ConfigUpdates : Serve(update_config(kv[1], kv[2]))

Sweeps ==
    \/ \E scan \in ScanOrders : Serve(auto_complete_orders_job(scan))
    \/ \E scan \in ScanOrders : Serve(release_pending_earnings_job(scan))

ForceOps ==
    \/ \E a \in Admins, oid \in OrderIds, pw \in Passwords, ph \in Phrases :
          Serve(force_refund_order(a, oid, pw, ph))
    \/ \E a \in Admins, oid \in OrderIds, pw \in Passwords, ph \in Phrases :
          Serve(force_complete_order(a, oid, pw, ph))

GiftOps ==
    \/ \E c \in Codes, amt \in GiftAmounts, x \in GiftExpiries :
          Serve(create_giftcard(c, amt, x))
    \/ \E u \in Users, c \in Codes : Serve(redeem_giftcard(u, c))

OverrideOps ==
    \/ \E a \in Admins, u \in Users, amt \in AdminAmounts, k \in IdemKeys :
          Serve(credit_wallet(a, u, amt, k))
    \/ \E a \in Admins, u \in Users, amt \in AdminAmounts, pw \in Passwords,
          ph \in Phrases, k \in IdemKeys : Serve(debit_wallet(a, u, amt, pw, ph, k))
    \/ \E a \in Admins, u \in Users, amt \in AdminAmounts, pw \in Passwords,
          ph \in Phrases, k \in IdemKeys : Serve(freeze_funds(a, u, amt, pw, ph, k))
    \/ \E a \in Admins, u \in Users, amt \in AdminAmounts, k \in IdemKeys :
          Serve(unfreeze_funds(a, u, amt, k))

LargeOverrideOps ==
    \/ \E a \in Admins, u \in Users, amt \in LargeAmounts, k \in IdemKeys :
          Serve(credit_wallet(a, u, amt, k))
    \/ \E a \in Admins, u \in Users, amt \in LargeAmounts, pw \in Passwords,
          ph \in Phrases, k \in IdemKeys : Serve(debit_wallet(a, u, amt, pw, ph, k))
    \/ \E a \in Admins, u \in Users, amt \in LargeAmounts, pw \in Passwords,
          ph \in Phrases, k \in IdemKeys : Serve(freeze_funds(a, u, amt, pw, ph, k))
    \/ \E a \in Admins, u \in Users, amt \in LargeAmounts, k \in IdemKeys :
          Serve(unfreeze_funds(a, u, amt, k))

WalletAdminOps ==
    \/ \E a \in Admins, u \in Users, amt \in AdminAmounts : Serve(admin_credit(a, u, amt))
    \/ \E a \in Admins, u \in Users, amt \in AdminAmounts : Serve(admin_debit(a, u, amt))
    \/ \E a \in Admins, u \in Users, amt \in AdminAmounts : Serve(admin_freeze(a, u, amt))
    \/ \E a \in Admins, u \in Users, amt \in AdminAmounts : Serve(admin_unfreeze(a, u, amt))

Clock == \E t \in Instants : Serve(Tick(t))

(***************************************************************************)
(* The marketplace: wallet funding, the order lifecycle, the settlement    *)
(* sweeps, the forced order outcomes, the configuration, the clock.        *)
(***************************************************************************)
Next == WalletOps \/ OrderOps \/ ConfigOps \/ Sweeps \/ ForceOps \/ Clock \/ Return

Spec == Init /\ [][Next]_vars

(***************************************************************************)
(* The wallet desk: funding, gift cards and the administrators' wallet     *)
(* overrides with their audit rows.                                        *)
(***************************************************************************)
NextAdmin == WalletOps \/ GiftOps \/ OverrideOps \/ Return

SpecAdmin == Init /\ [][NextAdmin]_vars

(***************************************************************************)
(* The audited desk: the administrators' large wallet overrides with their *)
(* step-up confirmation, and the wallet routes' own admin endpoints.       *)
(***************************************************************************)
NextAudit == LargeOverrideOps \/ WalletAdminOps \/ Return

SpecAudit == Init /\ [][NextAudit]_vars

(***************************************************************************)
(* Concurrent requests.  Each request runs in its own database session     *)
(* under READ COMMITTED: a statement reads what is committed when it runs, *)
(* the rows a session adds become visible when it commits.                 *)
(***************************************************************************)
Begin(p, t) == txn[p] = NoTxn /\ txn' = [txn EXCEPT ![p] = t]
Close(p) == txn' = [txn EXCEPT ![p] = NoTxn]

\* deposit: _create_ledger_entry reads the balance and adds the row
begin_deposit(p, u, amt) ==
    /\ Begin(p, [NoTxn EXCEPT !.op = "deposit", !.pc = "commit", !.user_id = u,
                              !.amount = amt, !.balance = get_user_balance(ledger, u)])
    /\ UNCHANGED <<db, now, result>>

\* deposit: db.commit()
commit_deposit(p) ==
    LET t == txn[p]
        e == NewEntry(t.balance, t.user_id, "deposit", t.amount, t.amount, 0, 0, NoOrder)
    IN  /\ t.op = "deposit"
        /\ Len(ledger) < MaxLedger
        /\ ledger' = Append(ledger, e)
        /\ Close(p)
        /\ UNCHANGED <<config, orders, listings, counter, sellers, giftcards, actions, now,
                       result>>

\* create_order: the listing and balance checks, up to generate_order_number
begin_create_order(p, b, l) ==
    /\ listings[l] = "approved"
    /\ ListingSeller(l) # b
    /\ get_user_balance(ledger, b).available_usd >= ListingPrice(l)
    /\ Begin(p, [NoTxn EXCEPT !.op = "create_order", !.pc = "select", !.user_id = b,
                              !.listing_id = l, !.amount = ListingPrice(l)])
    /\ UNCHANGED <<db, now, result>>

\* generate_order_number selecting the counter without FOR UPDATE
HoldsCounter_NoLock(q) == FALSE

\* a session that holds the order_counter row: it locked it, or inserted it
HoldsCounter(q) == txn[q].op = "create_order" /\ txn[q].pc = "commit"

\* create_order, with the counter's number in hand: the order is flushed and
\* hold_escrow reads the balance; an exception rolls the session back
Hold(p, number) ==
    LET t == txn[p]
        e == hold_escrow(ledger, t.user_id, t.amount, Len(orders) + 1)
    IN  IF EntryError(e) # "ok" THEN Close(p)
        ELSE txn' = [txn EXCEPT ![p].pc = "commit", ![p].number = number,
                                ![p].balance = get_user_balance(ledger, t.user_id)]

\* generate_order_number: SELECT ... FOR UPDATE waits for the row's holder
select_counter(p) ==
    /\ txn[p].pc = "select"
    /\ IF counter = None
       THEN txn' = [txn EXCEPT ![p].pc = "insert"]
       ELSE /\ \A q \in Procs : ~HoldsCounter(q)
            /\ Hold(p, counter)
    /\ UNCHANGED <<db, now, result>>

\* generate_order_number found no row: the INSERT waits for a session that
\* inserted the same row, and fails on the primary key once that one commits
insert_counter(p) ==
    /\ txn[p].pc = "insert"
    /\ \A q \in Procs : ~HoldsCounter(q)
    /\ IF counter # None THEN Close(p) ELSE Hold(p, FirstOrderNumber)
    /\ UNCHANGED <<db, now, result>>

\* a create_order that would send its mails with the transaction still open
commit_create_order_MailFirst(p) ==
    /\ txn[p].op = "create_order" /\ txn[p].pc = "commit"
    /\ txn' = [txn EXCEPT ![p].pc = "notify", ![p].outcome = "ok"]
    /\ UNCHANGED <<db, now, result>>

\* create_order: db.commit(); the notifications come after it
commit_create_order(p) ==
    LET t == txn[p]
        oid == Len(orders) + 1
        e == NewEntry(t.balance, t.user_id, "escrow_hold", -t.amount, -t.amount, 0, 0, oid)
    IN  /\ t.op = "create_order" /\ t.pc = "commit"
        /\ Len(ledger) < MaxLedger
        /\ orders' = Append(orders, NewOrder(t.user_id, t.listing_id, t.number))
        /\ counter' = t.number + 1
        /\ ledger' = Append(ledger, e)
        /\ listings' = [listings EXCEPT ![t.listing_id] = "sold"]
        /\ txn' = [txn EXCEPT ![p].pc = "notify", ![p].outcome = "ok"]
        /\ UNCHANGED <<config, sellers, giftcards, actions, now, result>>

\* send_order_email_async: try / except Exception around the mail service, so
\* that the call returns whatever the service did
send_order_email_async(outcome) ==
    IF outcome = "raised" THEN "logged" ELSE "returned"

\* create_order after its commit: the mail to the buyer and the mail to the
\* seller, then the order is returned
notify_create_order(p, to_buyer, to_seller) ==
    /\ txn[p].op = "create_order" /\ txn[p].pc = "notify"
    /\ txn' = [txn EXCEPT ![p].pc = "done",
                          ![p].mail = <<to_buyer, to_seller>>,
                          ![p].outcome =
                              IF {send_order_email_async(to_buyer),
                                  send_order_email_async(to_seller)} \subseteq {"logged", "returned"}
                              THEN "ok" ELSE "INTERNAL_ERROR"]
    /\ UNCHANGED <<db, now, result>>

\* the response of create_order is sent
respond_create_order(p) ==
    /\ txn[p].op = "create_order" /\ txn[p].pc = "done"
    /\ Close(p)
    /\ UNCHANGED <<db, now, result>>

\* POST /wallet/redeem-giftcard arrives
begin_redeem_giftcard(p, u, c) ==
    /\ Begin(p, [NoTxn EXCEPT !.op = "redeem_giftcard", !.pc = "lock", !.user_id = u,
                              !.code = c])
    /\ UNCHANGED <<db, now, result>>

\* SELECT ... FOR UPDATE without the row lock
GiftLocked_NoLock(c) == FALSE

\* another session selected the card's row FOR UPDATE and has not committed
GiftLocked(c) ==
    \E q \in Procs : txn[q].op = "redeem_giftcard" /\ txn[q].pc = "commit" /\ txn[q].code = c

\* redeem_giftcard up to db.commit(): the locking SELECT waits for the row's
\* holder and then sees what that one committed; the card is marked and
\* _create_ledger_entry reads the balance
select_giftcard(p) ==
    LET t == txn[p]
        giftcard == giftcards[t.code]
    IN  /\ t.op = "redeem_giftcard" /\ t.pc = "lock"
        /\ ~GiftLocked(t.code)
        /\ IF giftcard = NoCard \/ ~giftcard.is_active \/ giftcard.is_redeemed
           THEN txn' = [txn EXCEPT ![p].pc = "done", ![p].outcome = "NOT_FOUND"]
           ELSE IF giftcard.expires_at # None /\ giftcard.expires_at < now
           THEN txn' = [txn EXCEPT ![p].pc = "done", ![p].outcome = "VALIDATION_ERROR"]
           ELSE txn' = [txn EXCEPT ![p].pc = "commit", ![p].amount = giftcard.amount_usd,
                                   ![p].balance = get_user_balance(ledger, t.user_id)]
        /\ UNCHANGED <<db, now, result>>

\* redeem_giftcard: db.commit()
commit_redeem_giftcard(p) ==
    LET t == txn[p]
        e == NewEntry(t.balance, t.user_id, "giftcard_redeem", t.amount, t.amount, 0, 0,
                      NoOrder)
    IN  /\ t.op = "redeem_giftcard" /\ t.pc = "commit"
        /\ Len(ledger) < MaxLedger
        /\ giftcards' = [giftcards EXCEPT ![t.code].is_redeemed = TRUE,
                                          ![t.code].redeemed_by = t.user_id]
        /\ ledger' = Append(ledger, e)
        /\ txn' = [txn EXCEPT ![p].pc = "done", ![p].outcome = "ok"]
        /\ UNCHANGED <<config, orders, listings, counter, sellers, actions, now, result>>

\* the response of a redemption is sent
respond_redeem_giftcard(p) ==
    /\ txn[p].op = "redeem_giftcard" /\ txn[p].pc = "done"
    /\ Close(p)
    /\ UNCHANGED <<db, now, result>>

NextConc ==
    \/ \E p \in Procs, u \in Users, amt \in DepositAmounts : begin_deposit(p, u, amt)
    \/ \E p \in Procs : commit_deposit(p)
    \/ \E p \in Procs, b \in Users, l \in Listings : begin_create_order(p, b, l)
    \/ \E p \in Procs : select_counter(p)
    \/ \E p \in Procs : insert_counter(p)
    \/ \E p \in Procs : commit_create_order(p)
    \/ \E p \in Procs, to_buyer, to_seller \in MailOutcomes :
          notify_create_order(p, to_buyer, to_seller)
    \/ \E p \in Procs : respond_create_order(p)

SpecConc == Init /\ [][NextConc]_vars

(***************************************************************************)
(* Concurrent gift card redemptions, next to concurrent deposits.          *)
(***************************************************************************)
NextRedeem ==
    \/ \E c \in Codes, amt \in GiftAmounts, x \in GiftExpiries :
          Serve(create_giftcard(c, amt, x))
    \/ Return
    \/ \E p \in Procs, u \in Users, c \in Codes : begin_redeem_giftcard(p, u, c)
    \/ \E p \in Procs : select_giftcard(p)
    \/ \E p \in Procs : commit_redeem_giftcard(p)
    \/ \E p \in Procs : respond_redeem_giftcard(p)
    \/ \E p \in Procs, u \in Users, amt \in DepositAmounts : begin_deposit(p, u, amt)
    \/ \E p \in Procs : commit_deposit(p)

SpecRedeem == Init /\ [][NextRedeem]_vars

(***************************************************************************)
(* Sweeps running next to requests and to each other.  Each run of a job   *)
(* has its own session (AsyncSessionLocal): it scans, then handles the     *)
(* scanned orders one by one, then commits.  What a session has added or   *)
(* changed and not yet committed is in its rows (ledger entries) and marks *)
(* (column updates of orders); its own reads see them.                     *)
(***************************************************************************)
\* the row o with the columns of upd written over it
Merge(o, upd) == [f \in DOMAIN o |-> IF f \in DOMAIN upd THEN upd[f] ELSE o[f]]

\* the orders table after the UPDATEs of a session are committed
RECURSIVE ApplyMarks(_, _)
ApplyMarks(ords, marks) ==
    IF marks = <<>> THEN ords
    ELSE ApplyMarks([ords EXCEPT ![Head(marks).oid] = Merge(@, Head(marks).upd)], Tail(marks))

\* auto_complete_orders_job: the configuration is read and the orders are scanned
begin_auto_complete(p, scan) ==
    LET dispute_hours == int(get_config_value(config, "disputeWindowHours", 24))
    IN  /\ dispute_hours # Invalid
        /\ scan \in Scans(SelectDelivered(now - dispute_hours))
        /\ Begin(p, [NoTxn EXCEPT !.op = "auto_complete_orders_job", !.pc = "loop",
                                  !.scan = scan])
        /\ UNCHANGED <<db, now, result>>

\* auto_complete_orders_job: one turn of the loop; update_seller_stats commits
auto_complete_item(p) ==
    LET t == txn[p]
        oid == Head(t.scan)
        o == orders[oid]
        e == release_escrow_to_pending(ledger \o t.rows, o.seller_id,
                                       o.seller_earnings_usd, oid)
        protection_days == int(get_config_value(config, "sellerProtectionDays", 10))
    IN  /\ t.op = "auto_complete_orders_job" /\ t.pc = "loop" /\ t.scan # <<>>
        /\ Len(ledger) + Len(t.rows) < MaxLedger
        /\ IF EntryError(e) # "ok"
           THEN /\ txn' = [txn EXCEPT ![p].scan = Tail(t.scan)]
                /\ UNCHANGED db
           ELSE IF protection_days = Invalid
           THEN /\ txn' = [txn EXCEPT
                     ![p].scan = Tail(t.scan),
                     ![p].rows = Append(t.rows, e),
                     ![p].marks = Append(t.marks,
                         [oid |-> oid,
                          upd |-> [status |-> "completed", completed_at |-> now,
                                   completed_by |-> "auto"]])]
                /\ UNCHANGED db
           ELSE /\ ledger' = (ledger \o t.rows) \o <<e>>
                /\ orders' = ApplyMarks(orders, Append(t.marks,
                         [oid |-> oid,
                          upd |-> [status |-> "completed", completed_at |-> now,
                                   completed_by |-> "auto",
                                   seller_pending_release_at |-> now + 24 * protection_days]]))
                /\ sellers' = update_seller_stats(sellers, o.seller_id, o.amount_usd)
                /\ txn' = [txn EXCEPT ![p].scan = Tail(t.scan), ![p].rows = <<>>,
                                      ![p].marks = <<>>]
                /\ UNCHANGED <<config, listings, counter, giftcards, actions>>
        /\ UNCHANGED <<now, result>>

\* release_pending_earnings_job: the clock is read and the orders are scanned
begin_release(p, scan) ==
    /\ scan \in Scans(SelectReleasable)
    /\ Begin(p, [NoTxn EXCEPT !.op = "release_pending_earnings_job", !.pc = "loop",
                              !.scan = scan, !.number = now])
    /\ UNCHANGED <<db, now, result>>

\* release_pending_earnings_job: one turn of the loop; release_pending_to_available
\* commits the entry (and what the session had pending), then the order is stamped
release_item(p) ==
    LET t == txn[p]
        oid == Head(t.scan)
        o == orders[oid]
        e == release_pending_to_available(ledger \o t.rows, o.seller_id,
                                          o.seller_earnings_usd, oid)
    IN  /\ t.op = "release_pending_earnings_job" /\ t.pc = "loop" /\ t.scan # <<>>
        /\ Len(ledger) + Len(t.rows) < MaxLedger
        /\ IF EntryError(e) # "ok"
           THEN /\ txn' = [txn EXCEPT ![p].scan = Tail(t.scan)]
                /\ UNCHANGED db
           ELSE /\ ledger' = (ledger \o t.rows) \o <<e>>
                /\ orders' = ApplyMarks(orders, t.marks)
                /\ txn' = [txn EXCEPT
                     ![p].scan = Tail(t.scan),
                     ![p].rows = <<>>,
                     ![p].marks = <<[oid |-> oid,
                                     upd |-> [seller_earnings_released |-> t.number]]>>]
                /\ UNCHANGED <<config, listings, counter, sellers, giftcards, actions>>
        /\ UNCHANGED <<now, result>>

\* either job: the db.commit() after the loop
end_sweep(p) ==
    LET t == txn[p]
    IN  /\ t.pc = "loop" /\ t.scan = <<>>
        /\ ledger' = ledger \o t.rows
        /\ orders' = ApplyMarks(orders, t.marks)
        /\ Close(p)
        /\ UNCHANGED <<config, listings, counter, sellers, giftcards, actions, now, result>>

SweepRuns ==
    \/ \E p \in Procs, scan \in ScanOrders : begin_auto_complete(p, scan)
    \/ \E p \in Procs : auto_complete_item(p)
    \/ \E p \in Procs, scan \in ScanOrders : begin_release(p, scan)
    \/ \E p \in Procs : release_item(p)
    \/ \E p \in Procs : end_sweep(p)

\* the requests the sweeps run next to
SettlementOps ==
    \/ \E u \in Users, amt \in DepositAmounts : Serve(deposit(u, amt))
    \/ \E b \in Users, l \in Listings : Serve(create_order(b, l))
    \/ \E oid \in OrderIds, u \in Users : Serve(deliver_order(oid, u))
    \/ \E oid \in OrderIds, u \in Users : Serve(complete_order(oid, u))
    \/ \E oid \in OrderIds, u \in Users : Serve(dispute_order(oid, u))

NextSweep == SweepRuns \/ SettlementOps \/ ForceOps \/ Clock \/ Return

SpecSweep == Init /\ [][NextSweep]_vars

(***************************************************************************)
(* The admin routes called by whoever holds a login: the dispute           *)
(* resolution, the forced outcomes and the wallet overrides.               *)
(***************************************************************************)
CallerOps ==
    \/ \E c \in Callers, oid \in OrderIds, r \in Resolutions :
          Serve(resolve_dispute_route(c, oid, r))
    \/ \E c \in Callers, oid \in OrderIds, pw \in Passwords, ph \in Phrases :
          Serve(force_refund_order(c, oid, pw, ph))
    \/ \E c \in Callers, oid \in OrderIds, pw \in Passwords, ph \in Phrases :
          Serve(force_complete_order(c, oid, pw, ph))
    \/ \E c \in Callers, u \in Users, amt \in AdminAmounts, k \in IdemKeys :
          Serve(credit_wallet(c, u, amt, k))
    \/ \E c \in Callers, u \in Users, amt \in AdminAmounts, pw \in Passwords,
          ph \in Phrases, k \in IdemKeys : Serve(debit_wallet(c, u, amt, pw, ph, k))
    \/ \E c \in Callers, u \in Users, amt \in AdminAmounts, pw \in Passwords,
          ph \in Phrases, k \in IdemKeys : Serve(freeze_funds(c, u, amt, pw, ph, k))
    \/ \E c \in Callers, u \in Users, amt \in AdminAmounts, k \in IdemKeys :
          Serve(unfreeze_funds(c, u, amt, k))

NextRoles == SettlementOps \/ CallerOps \/ Clock \/ Return

SpecRoles == Init /\ [][NextRoles]_vars

(***************************************************************************)
(* The dispute window: orders delivered, disputed by the buyer or          *)
(* completed by the sweep, under the window the platform is configured to. *)
(***************************************************************************)
WindowConfigOps ==
    \E kv \in WindowUpdates : Serve(update_config(kv[1], kv[2]))

NextWindow == SettlementOps \/ WindowConfigOps \/ Sweeps \/ Clock \/ Return

SpecWindow == Init /\ [][NextWindow]_vars

(***************************************************************************)
(* The fee computation of create_order, over rule tables, seller levels    *)
(* and prices.                                                             *)
(***************************************************************************)
FeeOps ==
    \E rules \in RuleTables, platform \in Platforms, price_usd \in FeePrices,
       seller_level \in SellerLevels :
          Serve(calculate_fees(rules, platform, price_usd, seller_level))

NextFees == FeeOps \/ Return

SpecFees == Init /\ [][NextFees]_vars

(***************************************************************************)
(* The gift-card desk: cards are issued, redeemed and deactivated while    *)
(* the wallets are funded.                                                 *)
(***************************************************************************)
CardAdminOps ==
    \/ \E a \in Admins, c \in Codes :
          Len(actions) < MaxLedger /\ Serve(deactivate_gift_card(a, c))
    \/ \E a \in Admins, c \in Codes : Serve(deactivate_giftcard(a, c))

NextCards == WalletOps \/ GiftOps \/ CardAdminOps \/ Return

SpecCards == Init /\ [][NextCards]_vars

(***************************************************************************)
(* The order routes called by whoever holds a login: the buyer, the seller *)
(* and a user who is party to no order.                                    *)
(***************************************************************************)
Actors == Users \cup {"u3"}

ActorOps ==
    \/ \E u \in Users, amt \in DepositAmounts : Serve(deposit(u, amt))
    \/ \E b \in Users, l \in Listings : Serve(create_order(b, l))
    \/ \E oid \in OrderIds, u \in Actors : Serve(deliver_order(oid, u))
    \/ \E oid \in OrderIds, u \in Actors : Serve(complete_order(oid, u))
    \/ \E oid \in OrderIds, u \in Actors : Serve(dispute_order(oid, u))
    \/ \E oid \in OrderIds, u \in Actors : Serve(cancel_order(oid, u))

NextActors == ActorOps \/ Clock \/ Return

SpecActors == Init /\ [][NextActors]_vars

(***************************************************************************)
(* The settlement over time.  start_scheduler gives each of the two jobs   *)
(* an IntervalTrigger, so each job runs again and again whatever requests  *)
(* are served, and the clock goes on.  A job of the model waits for the    *)
(* request being served to return, so it is enabled infinitely often       *)
(* rather than continuously: its fairness is the strong one, written as    *)
(* the job's steps recurring (a job can run whenever no request is being   *)
(* served, and a request that is being served returns).  The jobs and the  *)
(* clock are not held back by the bound on the ledger, which bounds the    *)
(* requests.                                                               *)
(***************************************************************************)
\* PUT /config stores the string it is sent; the last reading of the clock
LiveConfigUpdates == {<<"disputeWindowHours", Invalid>>, <<"sellerProtectionDays", Invalid>>}

LastInstant == Max(Instants)

Run(job) == result = Idle /\ job /\ UNCHANGED txn

AutoCompleteRun == \E scan \in ScanOrders : Run(auto_complete_orders_job(scan))

ReleaseRun == \E scan \in ScanOrders : Run(release_pending_earnings_job(scan))

Pass == \E t \in Instants : Run(Tick(t))

LiveConfigOps == \E kv \in LiveConfigUpdates : Serve(update_config(kv[1], kv[2]))

\* the requests of the buyer, the seller and the super admin
LiveOps ==
    \/ \E amt \in DepositAmounts : Serve(deposit("b1", amt))
    \/ \E l \in Listings : Serve(create_order("b1", l))
    \/ \E oid \in OrderIds : Serve(deliver_order(oid, "s1"))
    \/ \E oid \in OrderIds : Serve(complete_order(oid, "b1"))
    \/ \E oid \in OrderIds : Serve(dispute_order(oid, "b1"))
    \/ \E a \in Admins, oid \in OrderIds : Serve(force_refund_order(a, oid, TRUE, NoId))
    \/ \E a \in Admins, oid \in OrderIds : Serve(force_complete_order(a, oid, TRUE, NoId))

NextLive == LiveOps \/ LiveConfigOps \/ AutoCompleteRun \/ ReleaseRun \/ Pass \/ Return

SpecLive ==
    /\ Init /\ [][NextLive]_vars
    /\ []<><<AutoCompleteRun>>_vars /\ []<><<ReleaseRun>>_vars
    /\ SF_vars(Pass) /\ WF_vars(Return)

(***************************************************************************)
(* Two buyers after the same listings: concurrent deposits and concurrent  *)
(* create_order requests of different buyers.                              *)
(***************************************************************************)
Buyers == {"b1", "b2"}

NextRace ==
    \/ \E p \in Procs, u \in Buyers, amt \in DepositAmounts : begin_deposit(p, u, amt)
    \/ \E p \in Procs : commit_deposit(p)
    \/ \E p \in Procs, b \in Buyers, l \in Listings : begin_create_order(p, b, l)
    \/ \E p \in Procs : select_counter(p)
    \/ \E p \in Procs : insert_counter(p)
    \/ \E p \in Procs : commit_create_order(p)
    \/ \E p \in Procs : notify_create_order(p, "sent", "sent")
    \/ \E p \in Procs : respond_create_order(p)

SpecRace == Init /\ [][NextRace]_vars

(***************************************************************************)
(* Properties                                                              *)
(***************************************************************************)
Rows == 1..Len(ledger)

\* the balance of the user of row i just before row i was written
BalanceBefore(led, i) == get_user_balance(SubSeq(led, 1, i - 1), led[i].user_id)

Snapshot(e) ==
    [available_usd |-> e.balance_available_after,
     pending_usd   |-> e.balance_pending_after,
     frozen_usd    |-> e.balance_frozen_after]

Terminal == {"completed", "refunded", "cancelled"}

\* C4: no step moves an order from CREATED straight to COMPLETED, and no step
\* changes the status of an order that is COMPLETED, REFUNDED or CANCELLED.
C4_TerminalStatesFinal ==
    [][\A oid \in OrderIds :
          /\ ~(orders[oid].status = "created" /\ orders'[oid].status = "completed")
          /\ orders[oid].status \in Terminal => orders'[oid].status = orders[oid].status]_vars

Edges ==
    {<<"created", "paid">>, <<"created", "cancelled">>, <<"paid", "delivered">>,
     <<"delivered", "completed">>, <<"delivered", "disputed">>,
     <<"disputed", "refunded">>, <<"disputed", "completed">>}

\* C5: every status change of every order is one of the seven edges of the
\* transition graph, and an order's amount_usd never changes.
C5_OnlyGraphEdges ==
    [][\A oid \in OrderIds :
          /\ orders'[oid].status # orders[oid].status
                => <<orders[oid].status, orders'[oid].status>> \in Edges
          /\ orders'[oid].amount_usd = orders[oid].amount_usd]_vars

\* C7: an escrow hold followed by the refund of the same order restores the
\* buyer's available balance to exactly its value before the hold and leaves
\* pending and frozen as they were.
C7_HoldRefundRoundTrip ==
    \A i \in Rows, j \in Rows :
        /\ i < j
        /\ ledger[i].entry_type = "escrow_hold"
        /\ ledger[j].entry_type = "refund"
        /\ ledger[j].user_id = ledger[i].user_id
        /\ ledger[j].order_id = ledger[i].order_id
        /\ \A k \in Rows : i < k /\ k < j => ledger[k].user_id # ledger[i].user_id
        => Snapshot(ledger[j]) = BalanceBefore(ledger, i)

\* a create_order request the listing and the buyer allow
Purchasable(b, l) == listings[l] = "approved" /\ ListingSeller(l) # b

\* C8: create_order by a buyer whose available balance is below the listing
\* price fails, with INSUFFICIENT_BALANCE when the listing is one the buyer may
\* buy, and changes nothing: no order row, no ledger entry, no order number
\* consumed, the listing still APPROVED.
C8_InsufficientBalanceNoEffect ==
    [][\A b \in Users, l \in Listings :
          /\ result = Idle
          /\ get_user_balance(ledger, b).available_usd < ListingPrice(l)
          /\ create_order(b, l)
          => /\ result'.code # "ok"
             /\ Purchasable(b, l) => result' = Res("create_order", "INSUFFICIENT_BALANCE")
             /\ orders' = orders
             /\ ledger' = ledger
             /\ counter' = counter
             /\ listings' = listings]_vars

\* C8 witness: a purchase was refused for lack of funds while the listings are
\* still on sale.
C8_PurchaseRefused ==
    /\ result = Res("create_order", "INSUFFICIENT_BALANCE")
    /\ \E l \in Listings : listings[l] = "approved"
    /\ \E i \in Rows : ledger[i].user_id = "b1"

\* C9: a successful create_order debits the buyer's available balance by the
\* order amount and leaves the order PAID; the buyer's complete_order of the
\* delivered order leaves it COMPLETED, adds seller_earnings_usd (amount minus
\* fee) to the seller's pending balance, leaves the seller's available balance
\* and the buyer's balances alone, and sets seller_pending_release_at to the
\* completion time plus the configured protection period.
C9_HappyPath ==
    [][/\ \A b \in Users, l \in Listings :
            result = Idle /\ create_order(b, l) /\ result'.code = "ok"
            => LET o == orders'[Len(orders')]
               IN  /\ o.status = "paid"
                   /\ get_user_balance(ledger', b)
                        = [get_user_balance(ledger, b) EXCEPT
                             !.available_usd = FSub(@, o.amount_usd)]
       /\ \A oid \in OrderIds, u \in Users :
            result = Idle /\ complete_order(oid, u) /\ result'.code = "ok"
            => LET o == orders'[oid]
                   seller == get_user_balance(ledger, o.seller_id)
               IN  /\ o.status = "completed"
                   /\ o.seller_earnings_usd = FSub(o.amount_usd, o.platform_fee_usd)
                   /\ get_user_balance(ledger', o.seller_id)
                        = [seller EXCEPT !.pending_usd = FAdd(@, o.seller_earnings_usd)]
                   /\ get_user_balance(ledger', o.buyer_id)
                        = get_user_balance(ledger, o.buyer_id)
                   /\ o.seller_pending_release_at
                        = now + 24 * get_config_value(config, "sellerProtectionDays", 10)]_vars

\* the ledger row of the escrow hold of order oid
HoldRow(oid) ==
    CHOOSE i \in Rows : ledger[i].entry_type = "escrow_hold" /\ ledger[i].order_id = oid

\* C10: when a dispute is resolved with "refund" the order ends REFUNDED, the
\* buyer's available balance is exactly what it was before the purchase, and
\* the seller's balances are what they were before the purchase (for a buyer
\* and a seller with no other wallet movement since the purchase).
C10_DisputeRefund ==
    [][\A oid \in OrderIds :
          result = Idle /\ resolve_dispute(oid, "refund") /\ result'.code = "ok"
          => LET o == orders[oid]
                 h == HoldRow(oid)
                 quiet(u) == \A k \in Rows : k > h => ledger[k].user_id # u
             IN  /\ orders'[oid].status = "refunded"
                 /\ quiet(o.buyer_id)
                      => get_user_balance(ledger', o.buyer_id).available_usd
                           = BalanceBefore(ledger, h).available_usd
                 /\ quiet(o.seller_id)
                      => get_user_balance(ledger', o.seller_id)
                           = get_user_balance(SubSeq(ledger, 1, h - 1), o.seller_id)]_vars

\* the deltas a ledger row applies, as its writer passes them for its type
DeltaOf(e) ==
    LET a == e.amount_usd
    IN  CASE e.entry_type \in {"deposit", "escrow_hold", "refund", "withdrawal_request",
                               "giftcard_redeem", "admin_credit", "admin_debit"}
               -> [available_usd |-> a, pending_usd |-> 0, frozen_usd |-> 0]
          [] e.entry_type = "escrow_release_pending"
               -> [available_usd |-> 0, pending_usd |-> a, frozen_usd |-> 0]
          [] e.entry_type = "escrow_release_available"
               -> [available_usd |-> a, pending_usd |-> -a, frozen_usd |-> 0]
          [] e.entry_type \in {"admin_freeze_hold", "admin_freeze_release"}
               -> [available_usd |-> a, pending_usd |-> 0, frozen_usd |-> -a]

Plus(bal, d) ==
    [available_usd |-> FAdd(bal.available_usd, d.available_usd),
     pending_usd   |-> FAdd(bal.pending_usd, d.pending_usd),
     frozen_usd    |-> FAdd(bal.frozen_usd, d.frozen_usd)]

\* C2: ledger replay: every entry's snapshot is the snapshot of the same
\* user's preceding entry (zero when there is none) plus the entry's own
\* deltas, so replaying a user's entries from zero gives the last snapshot.
C2_LedgerReplay ==
    \A i \in Rows : Snapshot(ledger[i]) = Plus(BalanceBefore(ledger, i), DeltaOf(ledger[i]))

\* the delta to the available balance that an open transaction commits
TxnDelta(t) == IF t.op = "deposit" THEN t.amount ELSE -t.amount

\* C3: concurrent operations on one wallet are serialized: whenever a request
\* commits, the user's balance becomes the balance committed just before plus
\* the request's own delta, so no committed update is lost, and a purchase
\* commits only against a balance that covers its price.
C3_WalletSerialized ==
    [][\A p \in Procs :
          txn[p].op # "none" /\ ledger' # ledger /\ txn'[p] = NoTxn
          => LET u == txn[p].user_id
                 before == get_user_balance(ledger, u).available_usd
             IN  /\ get_user_balance(ledger', u).available_usd
                      = FAdd(before, TxnDelta(txn[p]))
                 /\ txn[p].op = "create_order" => before >= txn[p].amount]_vars

ConflictCodes == {"CONFLICT", "DUPLICATE_ENTRY"}
RejectCodes ==
    {"AUTHORIZATION_ERROR", "AUTHENTICATION_ERROR", "VALIDATION_ERROR", "INSUFFICIENT_BALANCE"}

\* C6: a wallet override (credit, debit, freeze, unfreeze) sent with an
\* idempotency key that already produced an audit record fails with CONFLICT
\* and writes no ledger entry and no audit row; no key ever has two audit rows.
C6_AdminIdempotency ==
    [][\A a \in Admins, u \in Users, amt \in AdminAmounts, pw \in Passwords,
          ph \in Phrases, k \in IdemKeys \ {NoId} :
          /\ result = Idle
          /\ KeyUsed(k)
          /\ \/ credit_wallet(a, u, amt, k)
             \/ debit_wallet(a, u, amt, pw, ph, k)
             \/ freeze_funds(a, u, amt, pw, ph, k)
             \/ unfreeze_funds(a, u, amt, k)
          /\ result'.code \notin RejectCodes
          => /\ result'.code \in ConflictCodes
             /\ ledger' = ledger
             /\ actions' = actions
             /\ Cardinality({i \in 1..Len(actions') : actions'[i].idempotency_key = k}) = 1]_vars

\* the ledger rows of order oid that a step appends
NewRows(oid) == {i \in 1..Len(ledger') : i > Len(ledger) /\ ledger'[i].order_id = oid}

\* C11: a run of the auto-complete sweep turns every DELIVERED order whose
\* delivered_at is older than the dispute window into COMPLETED with
\* completed_by "auto" and appends exactly one escrow_release_pending entry
\* that adds its seller_earnings_usd to the seller's pending balance; every
\* other order (one already completed by an earlier run included) is left as
\* it is and gets no ledger entry.
C11_AutoCompleteOnce ==
    [][\A scan \in ScanOrders :
          result = Idle /\ auto_complete_orders_job(scan) /\ result'.code = "ok"
          => \A oid \in OrderIds :
                LET o == orders[oid]
                    window == int(get_config_value(config, "disputeWindowHours", 24))
                IN  IF o.status = "delivered" /\ o.delivered_at < now - window
                    THEN /\ orders'[oid].status = "completed"
                         /\ orders'[oid].completed_by = "auto"
                         /\ Cardinality(NewRows(oid)) = 1
                         /\ \A i \in NewRows(oid) :
                               /\ ledger'[i].entry_type = "escrow_release_pending"
                               /\ ledger'[i].user_id = o.seller_id
                               /\ ledger'[i].amount_usd = o.seller_earnings_usd
                               /\ Snapshot(ledger'[i])
                                    = [BalanceBefore(ledger', i) EXCEPT
                                         !.pending_usd = FAdd(@, o.seller_earnings_usd)]
                    ELSE /\ orders'[oid] = orders[oid]
                         /\ NewRows(oid) = {}]_vars

\* C11 witness: a run of the sweep found nothing to do while an order that an
\* earlier run completed holds its one pending credit.
C11_SecondSweepIdle ==
    /\ result.op = "auto_complete_orders_job"
    /\ result.scanned = 0
    /\ \E oid \in OrderIds :
          /\ orders[oid].completed_by = "auto"
          /\ Cardinality({i \in Rows : /\ ledger[i].order_id = oid
                                       /\ ledger[i].entry_type = "escrow_release_pending"}) = 1

\* C12: debit_wallet with the right password for an amount at or above
\* LARGE_AMOUNT_THRESHOLD fails with VALIDATION_ERROR and leaves the ledger and
\* the audit log alone unless the phrase is exactly "CONFIRM DEBIT"; with that
\* phrase (and a balance that covers the amount, an unused key) it succeeds and
\* appends exactly one admin_debit ledger entry and one AdminAction record.
C12_StepUpOnLargeDebit ==
    [][\A a \in Admins, u \in Users, amt \in LargeAmounts, ph \in Phrases, k \in IdemKeys :
          /\ result = Idle
          /\ amt >= LARGE_AMOUNT_THRESHOLD
          /\ debit_wallet(a, u, amt, TRUE, ph, k)
          => IF ph # "CONFIRM DEBIT"
             THEN /\ result' = Res("debit_wallet", "VALIDATION_ERROR")
                  /\ ledger' = ledger
                  /\ actions' = actions
             ELSE get_user_balance(ledger, u).available_usd >= amt /\ ~KeyUsed(k)
                  => /\ result' = Res("debit_wallet", "ok")
                     /\ Len(ledger') = Len(ledger) + 1
                     /\ ledger'[Len(ledger')].entry_type = "admin_debit"
                     /\ ledger'[Len(ledger')].user_id = u
                     /\ Len(actions') = Len(actions) + 1
                     /\ actions'[Len(actions')].action_type = "wallet_debit"]_vars

\* the giftcard_redeem ledger rows
RedeemRows == {i \in Rows : ledger[i].entry_type = "giftcard_redeem"}

\* C13: however two concurrent redemptions of one code interleave, at most one
\* of them succeeds: the ledger holds at most one giftcard_redeem entry, it
\* exists exactly when the card is redeemed and its amount is the card's
\* amount, no two requests are both past the locking SELECT or both answered
\* with success, and a request that does not succeed is answered NOT_FOUND.
C13_SingleRedemption ==
    \A c \in Codes :
        /\ Cardinality(RedeemRows) <= 1
        /\ RedeemRows # {} <=> (giftcards[c] # NoCard /\ giftcards[c].is_redeemed)
        /\ \A i \in RedeemRows : /\ ledger[i].amount_usd = giftcards[c].amount_usd
                                 /\ ledger[i].user_id = giftcards[c].redeemed_by
        /\ \A p, q \in Procs :
              /\ p # q /\ txn[p].code = c /\ txn[q].code = c
                 => ~(txn[p].pc = "commit" /\ txn[q].pc = "commit")
                    /\ ~(txn[p].outcome = "ok" /\ txn[q].outcome = "ok")
                    /\ ~(txn[p].outcome = "ok" /\ txn[q].pc = "commit")
              /\ txn[p].pc = "done" /\ txn[p].outcome # "ok" => txn[p].outcome = "NOT_FOUND"

\* C13 witness: of two redemptions of one code in flight together, one has
\* succeeded and the other, which had to wait for it, was answered NOT_FOUND.
C13_OneRedeemedOneRefused ==
    \E p, q \in Procs :
        /\ txn[p].op = "redeem_giftcard" /\ txn[p].outcome = "ok"
        /\ txn[q].op = "redeem_giftcard" /\ txn[q].outcome = "NOT_FOUND"
        /\ txn[p].code = txn[q].code
        /\ Cardinality(RedeemRows) = 1

\* the audit action type that goes with each privileged ledger entry type
AuditTypeOf ==
    [admin_credit |-> "wallet_credit", admin_debit |-> "wallet_debit",
     admin_freeze_hold |-> "wallet_freeze", admin_freeze_release |-> "wallet_unfreeze"]

\* C14: audit atomicity on the wallet: for every user and every kind of admin
\* wallet effect (credit, debit, freeze, unfreeze) the committed ledger entries
\* of that kind and the committed AdminAction records of that kind are equally
\* many, whichever endpoint wrote them: no effect without its audit record, no
\* audit record without its effect.
C14_AuditAtomicity ==
    \A u \in Users, type \in DOMAIN AuditTypeOf :
        Cardinality({i \in Rows : ledger[i].user_id = u /\ ledger[i].entry_type = type})
          = Cardinality({j \in 1..Len(actions) : /\ actions[j].target_id = u
                                                  /\ actions[j].action_type = AuditTypeOf[type]})

\* C15: however concurrent create_order calls interleave (the first ones, made
\* while the order_counter row does not exist, included), no two committed
\* orders carry the same order_number, and once an order is committed the
\* counter exists and is greater than every number issued.
C15_OrderNumbersUnique ==
    /\ \A i, j \in OrderIds : i # j => orders[i].order_number # orders[j].order_number
    /\ \A i \in OrderIds : counter # None /\ counter > orders[i].order_number
    /\ \A p, q \in Procs : p # q => ~(HoldsCounter(p) /\ HoldsCounter(q))

\* C15 witness: the first create_order has committed order 1000 and another
\* call in flight holds the counter row with number 1001.
C15_SecondNumberIssued ==
    /\ Len(orders) = 1
    /\ orders[1].order_number = FirstOrderNumber
    /\ \E p \in Procs : HoldsCounter(p) /\ txn[p].number = FirstOrderNumber + 1

\* the escrow_release_pending entries of order oid
PendingCredits(oid) ==
    {i \in Rows : ledger[i].order_id = oid /\ ledger[i].entry_type = "escrow_release_pending"}

\* C16: however a run of the auto-complete sweep interleaves with the buyer's
\* complete_order or dispute_order, an admin override or another run of the
\* sweep, no order's seller_earnings_usd is credited to the seller's pending
\* balance more than once, and a turn of the sweep's loop that finds its order
\* no longer DELIVERED leaves the order and the ledger alone.
C16_SweepRechecksStatus ==
    /\ [](\A oid \in OrderIds : Cardinality(PendingCredits(oid)) <= 1)
    /\ [][\A p \in Procs :
             /\ auto_complete_item(p)
             /\ orders[Head(txn[p].scan)].status # "delivered"
             => /\ orders' = orders
                /\ ledger' = ledger]_vars

\* the escrow_release_available entries of order oid
Releases(oid) ==
    {i \in Rows : ledger[i].order_id = oid
                  /\ ledger[i].entry_type = "escrow_release_available"}

\* C17: across any runs of the release sweep, overlapping ones included, every
\* committed state holds at most one escrow_release_available entry per order,
\* and holds one exactly when the order's seller_earnings_released is set.
C17_ReleasedExactlyOnce ==
    \A oid \in OrderIds :
        /\ Cardinality(Releases(oid)) <= 1
        /\ Releases(oid) # {} <=> orders[oid].seller_earnings_released # None

\* a lifecycle request answered from the wrong status: refused, as an invalid
\* transition when the caller is one the operation accepts, and without effect
Refused(op, from, oid, party) ==
    /\ result'.code = "ok" => orders[oid].status = from
    /\ orders[oid].status # from
         => /\ result'.code # "ok"
            /\ party => result' = Res(op, "INVALID_STATE_TRANSITION")
            /\ orders' = orders
            /\ ledger' = ledger

\* C18: deliver_order succeeds only from PAID, complete_order and dispute_order
\* only from DELIVERED, resolve_dispute only from DISPUTED and cancel_order only
\* from CREATED; on an order in any other status each is refused, with
\* INVALID_STATE_TRANSITION for a caller the operation accepts (the seller for
\* deliver, the buyer for complete and dispute, a party for cancel), and
\* leaves the orders and every user's ledger unchanged.
C18_LifecycleGuards ==
    [][\A oid \in OrderIds :
          /\ \A u \in Users :
                /\ result = Idle /\ deliver_order(oid, u)
                     => Refused("deliver_order", "paid", oid, u = orders[oid].seller_id)
                /\ result = Idle /\ complete_order(oid, u)
                     => Refused("complete_order", "delivered", oid, u = orders[oid].buyer_id)
                /\ result = Idle /\ dispute_order(oid, u)
                     => Refused("dispute_order", "delivered", oid, u = orders[oid].buyer_id)
                /\ result = Idle /\ cancel_order(oid, u)
                     => Refused("cancel_order", "created", oid,
                                u \in {orders[oid].buyer_id, orders[oid].seller_id})
          /\ \A r \in Resolutions :
                result = Idle /\ resolve_dispute(oid, r)
                  => Refused("resolve_dispute", "disputed", oid, TRUE)]_vars

\* C18 witness: a dispute was refused as an invalid transition on an order that
\* is past DELIVERED and has moved funds.
C18_DisputeRefused ==
    /\ result = Res("dispute_order", "INVALID_STATE_TRANSITION")
    /\ \E oid \in OrderIds : orders[oid].status = "completed" /\ PendingCredits(oid) # {}

\* the ledger entries of order oid that settle its escrow (all but the hold)
SettlingRows(oid) ==
    {i \in Rows : ledger[i].order_id = oid /\ ledger[i].entry_type # "escrow_hold"}

\* C20: no committed state has an order COMPLETED without exactly its
\* escrow_release_pending entry and its seller_pending_release_at, or a ledger
\* entry settling the escrow of an order whose status was not advanced past
\* PAID, DELIVERED or DISPUTED: the ledger append and the order mutation of a
\* transition persist together or not at all.
C20_AllOrNothing ==
    \A oid \in OrderIds :
        /\ orders[oid].status = "completed"
             => /\ Cardinality(PendingCredits(oid)) = 1
                /\ orders[oid].seller_pending_release_at # None
        /\ SettlingRows(oid) # {}
             => orders[oid].status \notin {"created", "paid", "delivered", "disputed"}

C21_ForcePhraseAnyAmount ==
    [][\A a \in Admins, oid \in OrderIds, ph \in Phrases :
          /\ ( /\ result = Idle
               /\ force_refund_order(a, oid, TRUE, ph)
               /\ ph # "CONFIRM REFUND"
               /\ orders[oid].status \notin {"refunded", "cancelled"} )
             => /\ result' = Res("force_refund_order", "VALIDATION_ERROR")
                /\ orders' = orders
                /\ ledger' = ledger
          /\ ( /\ result = Idle
               /\ force_complete_order(a, oid, TRUE, ph)
               /\ ph # "CONFIRM COMPLETE"
               /\ orders[oid].status \notin {"completed", "refunded", "cancelled"} )
             => /\ result' = Res("force_complete_order", "VALIDATION_ERROR")
                /\ orders' = orders
                /\ ledger' = ledger]_vars

\* the wallet override requests that carry a re-entered password that verifies
VerifiedOverride ==
    \/ \E a \in Admins, u \in Users, amt \in AdminAmounts, ph \in Phrases, k \in IdemKeys :
          debit_wallet(a, u, amt, TRUE, ph, k)
    \/ \E a \in Admins, u \in Users, amt \in AdminAmounts, ph \in Phrases, k \in IdemKeys :
          freeze_funds(a, u, amt, TRUE, ph, k)

\* C22: a wallet override (credit, debit, freeze, unfreeze) that takes effect,
\* i.e. answers ok or writes a ledger entry or an audit record, is a request
\* whose re-entered password verified.
C22_PasswordBeforeOverride ==
    [][( /\ result = Idle
         /\ result'.op \in {"credit_wallet", "debit_wallet", "freeze_funds", "unfreeze_funds"}
         /\ result'.code = "ok" \/ ledger' # ledger \/ actions' # actions )
       => VerifiedOverride]_vars

\* the caller may resolve disputes: a super admin, or an admin who was granted
\* the DISPUTE_RESOLVE scope
MayResolve(c) ==
    \/ "super_admin" \in AdminRoles(c)
    \/ "admin" \in AdminRoles(c) /\ "DISPUTE_RESOLVE" \in admin_permissions(c)

\* a request that was refused for the caller's role and changed nothing
Denied(op) == result' = Res(op, "AUTHORIZATION_ERROR") /\ db' = db

\* C23: a wallet override or a forced order outcome called by someone who is
\* not super_admin, and a dispute resolution called by someone who is neither
\* super_admin nor an admin holding the DISPUTE_RESOLVE scope, is answered
\* AUTHORIZATION_ERROR and leaves every table as it was.
C23_RoleGating ==
    [][\A c \in Callers :
          /\ "super_admin" \notin AdminRoles(c)
             => /\ \A u \in Users, amt \in AdminAmounts, pw \in Passwords, ph \in Phrases,
                      k \in IdemKeys :
                      /\ result = Idle /\ credit_wallet(c, u, amt, k) => Denied("credit_wallet")
                      /\ result = Idle /\ debit_wallet(c, u, amt, pw, ph, k)
                           => Denied("debit_wallet")
                      /\ result = Idle /\ freeze_funds(c, u, amt, pw, ph, k)
                           => Denied("freeze_funds")
                      /\ result = Idle /\ unfreeze_funds(c, u, amt, k)
                           => Denied("unfreeze_funds")
                /\ \A oid \in OrderIds, pw \in Passwords, ph \in Phrases :
                      /\ result = Idle /\ force_refund_order(c, oid, pw, ph)
                           => Denied("force_refund_order")
                      /\ result = Idle /\ force_complete_order(c, oid, pw, ph)
                           => Denied("force_complete_order")
          /\ ~MayResolve(c)
             => \A oid \in OrderIds, r \in Resolutions :
                   result = Idle /\ resolve_dispute_route(c, oid, r) => Denied("resolve_dispute")]_vars

\* the configured dispute window, 24 hours when absent
dispute_window_hours == get_config_value(config, "disputeWindowHours", 24)

\* C24: the buyer's dispute_order on a DELIVERED order succeeds exactly when
\* now <= delivered_at + the configured dispute window (24 h when absent) and
\* answers VALIDATION_ERROR after it, writing no ledger entry either way; and
\* a run of the auto-complete sweep completes no order that is still within
\* that window.
C24_DisputeWindow ==
    [][/\ \A oid \in OrderIds :
             ( /\ result = Idle
               /\ dispute_order(oid, orders[oid].buyer_id)
               /\ orders[oid].status = "delivered" )
             => /\ ledger' = ledger
                /\ IF now <= orders[oid].delivered_at + dispute_window_hours
                   THEN result' = Res("dispute_order", "ok") /\ orders'[oid].status = "disputed"
                   ELSE result' = Res("dispute_order", "VALIDATION_ERROR") /\ orders' = orders
       /\ \A scan \in ScanOrders :
             result = Idle /\ auto_complete_orders_job(scan)
             => \A oid \in OrderIds :
                   orders'[oid].status # orders[oid].status
                   => now > orders[oid].delivered_at + dispute_window_hours]_vars

\* the configured seller protection, in days, 10 when absent
seller_protection_days == int(get_config_value(config, "sellerProtectionDays", 10))

\* C25: while the configured seller protection is a number of days, every step
\* that turns an order COMPLETED, by whichever path, sets its
\* seller_pending_release_at to the time of that step plus the configured days
\* (10 when absent); and every step that appends an escrow_release_available
\* entry for an order happens at or after that order's
\* seller_pending_release_at.
C25_SellerProtection ==
    [][\A oid \in OrderIds :
          /\ ( /\ seller_protection_days # Invalid
               /\ orders[oid].status # "completed"
               /\ orders'[oid].status = "completed" )
             => orders'[oid].seller_pending_release_at = now + 24 * seller_protection_days
          /\ (\E i \in NewRows(oid) : ledger'[i].entry_type = "escrow_release_available")
             => /\ orders[oid].seller_pending_release_at # None
                /\ now >= orders[oid].seller_pending_release_at]_vars

\* what create_order committed for the request of session p is in the tables
Committed(p) ==
    \E oid \in OrderIds :
        /\ orders[oid].order_number = txn[p].number
        /\ orders[oid].buyer_id = txn[p].user_id
        /\ orders[oid].listing_id = txn[p].listing_id
        /\ orders[oid].status = "paid"
        /\ \E i \in Rows : /\ ledger[i].order_id = oid
                           /\ ledger[i].entry_type = "escrow_hold"
                           /\ ledger[i].user_id = txn[p].user_id
        /\ listings[txn[p].listing_id] = "sold"
        /\ counter > txn[p].number

\* C26: create_order sends its notifications only once the order row, the
\* escrow hold, the listing status and the order counter are committed, and
\* whatever the mail service does (it sends, fails or raises) the notification
\* step leaves every table as committed and the request still succeeds.
C26_NotificationIndependence ==
    /\ [](\A p \in Procs :
             txn[p].op = "create_order" /\ txn[p].pc \in {"notify", "done"} => Committed(p))
    /\ [][\A p \in Procs, to_buyer, to_seller \in MailOutcomes :
             notify_create_order(p, to_buyer, to_seller)
             => db' = db /\ txn'[p].outcome = "ok"]_vars

\* C26 witness: a create_order whose mail to the buyer raised and whose mail to
\* the seller failed has answered ok with its order committed.
C26_MailRaisedOrderStands ==
    \E p \in Procs :
        /\ txn[p].op = "create_order" /\ txn[p].pc = "done"
        /\ txn[p].mail = <<"raised", "failed">>
        /\ txn[p].outcome = "ok"
        /\ Committed(p)

\* the answer the append rule gives to a change of user u's balances by the
\* deltas ad, pd, fd
AppendRule(u, ad, pd, fd) ==
    LET bal == get_user_balance(ledger, u)
    IN  IF FAdd(bal.available_usd, ad) < 0 THEN "INSUFFICIENT_BALANCE"
        ELSE IF FAdd(bal.pending_usd, pd) < 0 \/ FAdd(bal.frozen_usd, fd) < 0
        THEN "WALLET_ERROR"
        ELSE "ok"

\* the step answered as the append rule says: one row for user u, or the error
\* and no row
Answered(u, code) ==
    /\ result'.code = code
    /\ IF code = "ok"
       THEN /\ Len(ledger') = Len(ledger) + 1
            /\ SubSeq(ledger', 1, Len(ledger)) = ledger
            /\ ledger'[Len(ledger')].user_id = u
       ELSE ledger' = ledger

\* C27: an admin's credit, debit, freeze or unfreeze of a wallet, by either
\* admin interface, with the password and the phrase it asks for and a fresh
\* key, is refused with INSUFFICIENT_BALANCE when the available balance would
\* become negative and with WALLET_ERROR when the pending or frozen balance
\* would (an unfreeze of more than is frozen), writing no row; otherwise it
\* writes exactly one row.
C27_AppendRejection ==
    [][\A a \in Admins, u \in Users :
          /\ \A amt \in AdminAmounts :
                /\ result = Idle /\ admin_credit(a, u, amt)
                     => Answered(u, AppendRule(u, amt, 0, 0))
                /\ result = Idle /\ admin_debit(a, u, amt)
                     => Answered(u, AppendRule(u, -amt, 0, 0))
                /\ result = Idle /\ admin_freeze(a, u, amt)
                     => Answered(u, AppendRule(u, -amt, 0, amt))
                /\ result = Idle /\ admin_unfreeze(a, u, amt)
                     => Answered(u, AppendRule(u, amt, 0, -amt))
          /\ \A amt \in LargeAmounts, k \in IdemKeys :
                ~KeyUsed(k)
                => /\ result = Idle /\ credit_wallet(a, u, amt, k)
                        => Answered(u, AppendRule(u, amt, 0, 0))
                   /\ result = Idle /\ debit_wallet(a, u, amt, TRUE, "CONFIRM DEBIT", k)
                        => Answered(u, AppendRule(u, -amt, 0, 0))
                   /\ result = Idle /\ freeze_funds(a, u, amt, TRUE, "CONFIRM FREEZE", k)
                        => Answered(u, AppendRule(u, -amt, 0, amt))
                   /\ result = Idle /\ unfreeze_funds(a, u, amt, k)
                        => Answered(u, AppendRule(u, amt, 0, -amt))]_vars

\* the discount of a seller tier, in percent
DiscountPercent(level) ==
    CASE level = "silver"   -> 10
      [] level = "gold"     -> 20
      [] level = "platinum" -> 35
      [] level = "diamond"  -> 50
      [] OTHER -> 0

\* C28: the fees computed for an order are effective_fee_percent =
\* base_fee_percent x (1 - the discount of the seller's tier), with
\* 0 <= platform_fee_usd <= amount_usd, and the stored platform_fee_usd and
\* seller_earnings_usd add up to amount_usd.
C28_FeeArithmetic ==
    result.op = "calculate_fees"
    => /\ result.effective_fee_percent
            = FMul(result.base_fee_percent,
                   FSub(USD(1), Lit(DiscountPercent(result.seller_level), 100)))
       /\ 0 <= result.platform_fee_usd
       /\ result.platform_fee_usd <= result.amount_usd
       /\ result.platform_fee_usd + result.seller_earnings_usd = result.amount_usd

\* the fee of the most specific rule of the table for a listing's game,
\* platform and seller level, 5 when no rule matches
MostSpecificFee(rules, game, platform, level) ==
    IF RuleFee(rules, game, platform, level) # {}
    THEN CHOOSE f \in RuleFee(rules, game, platform, level) : TRUE
    ELSE IF RuleFee(rules, game, NoId, level) # {}
    THEN CHOOSE f \in RuleFee(rules, game, NoId, level) : TRUE
    ELSE IF RuleFee(rules, game, NoId, NoId) # {}
    THEN CHOOSE f \in RuleFee(rules, game, NoId, NoId) : TRUE
    ELSE USD(5)

\* C29: the base fee of an order is that of the most specific rule matching
\* the listing's game, platform and seller level: game+platform+level, else
\* game+level, else the game's default, else 5%.
C29_MostSpecificRule ==
    result.op = "calculate_fees"
    => result.base_fee_percent
         = MostSpecificFee(result.rules, "g1", result.platform, result.seller_level)

\* the sum of amount_usd over the COMPLETED orders of seller u among the first
\* n orders
RECURSIVE CompletedVolume(_, _)
CompletedVolume(u, n) ==
    IF n = 0 THEN 0
    ELSE CompletedVolume(u, n - 1)
         + (IF orders[n].seller_id = u /\ orders[n].status = "completed"
            THEN orders[n].amount_usd ELSE 0)

\* C30: every seller's total_sales_volume_usd is the sum of amount_usd over
\* that seller's COMPLETED orders, and the seller's tier is the one of that
\* volume (bronze below 100, silver from 100, gold from 350, platinum from 750,
\* diamond from 1500).
C30_SellerStatistics ==
    \A u \in Users :
        /\ sellers[u].total_sales_volume_usd = CompletedVolume(u, Len(orders))
        /\ sellers[u].seller_level = LevelOf(CompletedVolume(u, Len(orders)))

\* the step did to order oid what the buyer's complete_order does, up to
\* completed_by: the one pending credit, the order's fields, the seller's
\* statistics
AsBuyerCompletion(oid, by) ==
    LET o == orders[oid]
    IN  /\ ledger' = Append(ledger, release_escrow_to_pending(ledger, o.seller_id,
                                                              o.seller_earnings_usd, oid))
        /\ orders'[oid] = [Completed(o, "buyer", SellerProtectionHours) EXCEPT
                             !.completed_by = by]
        /\ sellers' = update_seller_stats(sellers, o.seller_id, o.amount_usd)

\* C31: while the configured seller protection is a number, a run of the
\* auto-complete sweep over one DELIVERED order, and an admin's "complete"
\* resolution of a DISPUTED order, leave the ledger entry, the order's status
\* and seller_pending_release_at and the seller's statistics that the buyer's
\* complete_order would leave in the same state, with completed_by "auto" and
\* "admin".
C31_CompletionPathsAgree ==
    [][\A oid \in OrderIds :
          /\ ( /\ result = Idle
               /\ seller_protection_days # Invalid
               /\ auto_complete_orders_job(<<oid>>)
               /\ result'.code = "ok" )
             => AsBuyerCompletion(oid, "auto")
          /\ ( /\ result = Idle
               /\ resolve_dispute(oid, "complete")
               /\ result'.code = "ok" )
             => AsBuyerCompletion(oid, "admin")]_vars

\* C32: no committed order has the status created, no cancel_order ever
\* succeeds, and no order has the status cancelled.
C32_NeverCreatedNeverCancelled ==
    /\ \A oid \in OrderIds : orders[oid].status \notin {"created", "cancelled"}
    /\ ~(result.op = "cancel_order" /\ result.code = "ok")

\* C32 witness: a party to a committed order asked to cancel it and was refused
\* for the order's status.
C32_CancelRefused ==
    /\ result = Res("cancel_order", "INVALID_STATE_TRANSITION")
    /\ orders # <<>>

\* the ledger row i moved amt of its user's money from the first balance field
\* to the second and kept their sum
Moved(i, amt, from, to) ==
    LET before == BalanceBefore(ledger, i)
        after == Snapshot(ledger[i])
    IN  /\ after[from] = before[from] - amt
        /\ after[to] = before[to] + amt
        /\ after.available_usd + after.frozen_usd
              = before.available_usd + before.frozen_usd

\* C33: a freeze of amt takes amt from available and adds it to frozen, an
\* unfreeze of amt does the reverse, each leaves pending and available + frozen
\* as they were; a freeze directly followed (for that user) by an unfreeze of
\* the same amount restores the user's three balances; and a freeze of more
\* than the available balance, by either service, is refused and changes
\* nothing.
C33_FreezeUnfreeze ==
    /\ [](\A i \in Rows :
            /\ ledger[i].entry_type = "admin_freeze_hold"
                 => /\ Moved(i, -ledger[i].amount_usd, "available_usd", "frozen_usd")
                    /\ Snapshot(ledger[i]).pending_usd = BalanceBefore(ledger, i).pending_usd
            /\ ledger[i].entry_type = "admin_freeze_release"
                 => /\ Moved(i, ledger[i].amount_usd, "frozen_usd", "available_usd")
                    /\ Snapshot(ledger[i]).pending_usd = BalanceBefore(ledger, i).pending_usd
            /\ \A j \in Rows :
                  /\ i < j
                  /\ ledger[i].entry_type = "admin_freeze_hold"
                  /\ ledger[j].entry_type = "admin_freeze_release"
                  /\ ledger[j].user_id = ledger[i].user_id
                  /\ ledger[j].amount_usd = -ledger[i].amount_usd
                  /\ \A k \in Rows : i < k /\ k < j => ledger[k].user_id # ledger[i].user_id
                  => Snapshot(ledger[j]) = BalanceBefore(ledger, i))
    /\ [][\A a \in Admins, u \in Users, amt \in AdminAmounts \cup LargeAmounts :
            /\ result = Idle
            /\ amt > get_user_balance(ledger, u).available_usd
            /\ \/ admin_freeze(a, u, amt)
               \/ \E pw \in Passwords, ph \in Phrases, k \in IdemKeys :
                     freeze_funds(a, u, amt, pw, ph, k)
            => result'.code # "ok" /\ UNCHANGED db]_vars

\* C34: every gift card's status is active, redeemed or deactivated; a card
\* that has been redeemed has the status redeemed; and a deactivation of a
\* redeemed card is refused with INVALID_STATE and leaves the card as it was.
C34_GiftCardStatus ==
    /\ [](\A c \in Codes :
            giftcards[c] # NoCard
            => /\ giftcards[c].status \in {"active", "redeemed", "deactivated"}
               /\ giftcards[c].is_redeemed => giftcards[c].status = "redeemed")
    /\ [][\A a \in Admins, c \in Codes :
            /\ result = Idle
            /\ giftcards[c] # NoCard
            /\ giftcards[c].is_redeemed
            /\ deactivate_gift_card(a, c)
            => result' = Res("deactivate_gift_card", "INVALID_STATE") /\ UNCHANGED db]_vars

\* C35: a withdrawal request of no more than the available balance moves the
\* amount from available to pending and leaves frozen alone; one of more than
\* the available balance fails with INSUFFICIENT_BALANCE and appends nothing.
C35_WithdrawalMovesToPending ==
    [][\A u \in Users, amt \in DepositAmounts :
          /\ result = Idle
          /\ request_withdrawal(u, amt)
          => LET before == get_user_balance(ledger, u)
                 after == get_user_balance(ledger', u)
             IN  IF amt > before.available_usd
                 THEN /\ result' = Res("request_withdrawal", "INSUFFICIENT_BALANCE")
                      /\ UNCHANGED db
                 ELSE /\ result'.code = "ok"
                      /\ Len(ledger') = Len(ledger) + 1
                      /\ after.available_usd = FSub(before.available_usd, amt)
                      /\ after.pending_usd = FAdd(before.pending_usd, amt)
                      /\ after.frozen_usd = before.frozen_usd]_vars

\* the request was refused for who sent it, and changed nothing
RefusedActor(op) == result' = Res(op, "AUTHORIZATION_ERROR") /\ UNCHANGED db

\* C36: deliver_order by anyone but the order's seller, complete_order and
\* dispute_order by anyone but its buyer, and cancel_order by someone who is
\* neither, fail with AUTHORIZATION_ERROR and leave the order and every ledger
\* as they were.
C36_WrongActor ==
    [][\A oid \in OrderIds, u \in Actors :
          /\ result = Idle /\ u # orders[oid].seller_id /\ deliver_order(oid, u)
                => RefusedActor("deliver_order")
          /\ result = Idle /\ u # orders[oid].buyer_id /\ complete_order(oid, u)
                => RefusedActor("complete_order")
          /\ result = Idle /\ u # orders[oid].buyer_id /\ dispute_order(oid, u)
                => RefusedActor("dispute_order")
          /\ result = Idle /\ u \notin {orders[oid].buyer_id, orders[oid].seller_id}
                /\ cancel_order(oid, u)
                => RefusedActor("cancel_order")]_vars

\* the orders a run can hold: one for each listing
AllOrderIds == 1..Cardinality(Listings)

\* C37: with the auto-complete job and the clock running on, every DELIVERED
\* order whose dispute window ends before the last clock reading is eventually
\* COMPLETED, unless it is disputed or an admin forces its outcome.
C37_AutoCompletionLive ==
    \A oid \in AllOrderIds :
        ( /\ oid \in OrderIds
          /\ orders[oid].status = "delivered"
          /\ orders[oid].delivered_at + DisputeHours < LastInstant )
        ~> ( /\ oid \in OrderIds
             /\ orders[oid].status \in {"completed", "disputed", "refunded"} )

\* the earnings of order oid were moved from the seller's pending balance to the
\* available one
EarningsReleased(oid) ==
    /\ orders[oid].seller_earnings_released # None
    /\ \E i \in Rows : /\ ledger[i].order_id = oid
                       /\ ledger[i].entry_type = "escrow_release_available"
                       /\ ledger[i].user_id = orders[oid].seller_id
                       /\ ledger[i].amount_usd = orders[oid].seller_earnings_usd

\* C38: with the release job and the clock running on, every COMPLETED order
\* whose seller protection ends by the last clock reading eventually has
\* seller_earnings_released set and an escrow_release_available entry that
\* moved its earnings from the seller's pending to the available balance,
\* unless an admin has refunded it by force in the meantime.
C38_EarningsReleaseLive ==
    \A oid \in AllOrderIds :
        ( /\ oid \in OrderIds
          /\ orders[oid].status = "completed"
          /\ orders[oid].completed_at + SellerProtectionHours <= LastInstant )
        ~> ( /\ oid \in OrderIds
             /\ EarningsReleased(oid) \/ orders[oid].status = "refunded" )

\* the committed orders for listing l
OrdersFor(l) == {oid \in OrderIds : orders[oid].listing_id = l}

\* C39: whatever the interleaving of the create_order requests of different
\* buyers, no listing has orders of two buyers, and no listing has escrow held
\* for it from two buyers.
C39_SoldAtMostOnce ==
    \A l \in Listings :
        /\ Cardinality({orders[oid].buyer_id : oid \in OrdersFor(l)}) <= 1
        /\ Cardinality({ledger[i].user_id :
                           i \in {j \in Rows : /\ ledger[j].entry_type = "escrow_hold"
                                               /\ ledger[j].order_id \in OrdersFor(l)}}) <= 1

\* the refunds of order oid credited to its buyer
Refunds(oid) ==
    {i \in Rows : /\ ledger[i].order_id = oid
                  /\ ledger[i].entry_type = "refund"
                  /\ ledger[i].user_id = orders[oid].buyer_id}

\* the total of the amounts of the ledger rows S
RECURSIVE TotalOf(_)
TotalOf(S) ==
    IF S = {} THEN 0
    ELSE LET i == CHOOSE j \in S : TRUE IN ledger[i].amount_usd + TotalOf(S \ {i})

\* C40: whatever requests, sweeps and overrides were served, the refunds of an
\* order to its buyer and the pending credits of the order to its seller add
\* up to no more than the order's amount_usd, and no order has both a refund
\* and a pending credit.
C40_PaidOutAtMostOnce ==
    \A oid \in OrderIds :
        /\ TotalOf(Refunds(oid)) + TotalOf(PendingCredits(oid)) <= orders[oid].amount_usd
        /\ Refunds(oid) = {} \/ PendingCredits(oid) = {}

====
